---- MODULE Spec2Model ----
(***************************************************************************)
(* Retrieval-and-caching pipeline of the document question-answering       *)
(* backend: cache-key derivation, the four cache layers of POST /ask, the  *)
(* multi-document merge, the no-answer policy, the row -> chunk_id mapping *)
(* of the retriever and the chunk / embed / index build endpoints.         *)
(*                                                                         *)
(* Texts are sequences of one-character strings; a placeholder written by  *)
(* mask_entities ("[YEAR]", ...) is kept as one symbol, which is neither a *)
(* word character, a digit nor white space (its outer characters are the   *)
(* brackets).  Similarities and scores are integers: embedding components  *)
(* are in units of 1e-4, so that the 1e-8 of the cosine denominator is 1.  *)
(***************************************************************************)
EXTENDS Integers, Sequences, FiniteSets, TLC

VARIABLES
    settings,   \* app.core.config.settings as the running process sees them
    app,        \* request.app.state: which collaborators are attached
    kv,         \* the key-value store behind app.state.cache
    files,      \* processed/{doc_id}/ artifacts, per document
    last,       \* what the most recent request did and returned
    hist,       \* history: first served response per request, cache writes
    budget,     \* remaining steps of each kind
    pin,        \* input of the pure function under study
    pout        \* its result

vars == <<settings, app, kv, files, last, hist, budget, pin, pout>>

None == "None"

(* An optional value (a file that may be absent, a float that may be None) *)
(* is a sequence of length 0 or 1.                                         *)
Absent == <<>>
Some(x) == <<x>>
Exists(o) == o # <<>>
Content(o) == o[1]

(***************************************************************************)
(* Bounds of the model.                                                    *)
(***************************************************************************)
MaxAsks == 2
MaxReconfigures == 1
MaxBuilds == 2
MaxExpires == 1

(***************************************************************************)
(* Characters.                                                             *)
(***************************************************************************)
Digits == {"0", "1", "2", "3", "4", "5", "6", "7", "8", "9"}
Letters == {"a", "b", "c", "i", "n", "x"}
Spaces == {" ", "\t", "\n"}

IsDigit(c) == c \in Digits
IsWord(c) == c \in Digits \cup Letters \cup {"_"}
IsSpace(c) == c \in Spaces

Min(a, b) == IF a <= b THEN a ELSE b
Max(a, b) == IF a >= b THEN a ELSE b

(* \b of the regular expressions: between s[i-1] and s[i], i in 1..Len+1.  *)
Boundary(s, i) ==
    LET l == i > 1 /\ IsWord(s[i - 1])
        r == i <= Len(s) /\ IsWord(s[i])
    IN  l # r

(* First index >= i whose character is not in cs (Len+1 when none).        *)
RECURSIVE RunEnd(_, _, _)
RunEnd(s, i, cs) ==
    IF i <= Len(s) /\ s[i] \in cs THEN RunEnd(s, i + 1, cs) ELSE i

(* First index >= i holding white space (Len+1 when none): end of \S+.     *)
RECURSIVE TokenEnd(_, _)
TokenEnd(s, i) ==
    IF i <= Len(s) /\ ~IsSpace(s[i]) THEN TokenEnd(s, i + 1) ELSE i

(* End (exclusive) of "\.\d+" at j, or j when it does not match there.     *)
FracEnd(s, j) ==
    IF j <= Len(s) /\ s[j] = "." /\ RunEnd(s, j + 1, Digits) > j + 1
    THEN RunEnd(s, j + 1, Digits)
    ELSE j

(***************************************************************************)
(* normalize_question: strip, then every white-space run becomes one       *)
(* space.                                                                  *)
(***************************************************************************)
RECURSIVE StripLeft(_)
StripLeft(s) ==
    IF s # <<>> /\ IsSpace(Head(s)) THEN StripLeft(Tail(s)) ELSE s

RECURSIVE StripRight(_)
StripRight(s) ==
    IF s # <<>> /\ IsSpace(s[Len(s)])
    THEN StripRight(SubSeq(s, 1, Len(s) - 1))
    ELSE s

Strip(s) == StripRight(StripLeft(s))

RECURSIVE CollapseWs(_)
CollapseWs(s) ==
    IF s = <<>> THEN <<>>
    ELSE IF IsSpace(Head(s))
         THEN <<" ">> \o CollapseWs(StripLeft(s))
         ELSE <<Head(s)>> \o CollapseWs(Tail(s))

normalize_question(q) == CollapseWs(Strip(q))

(***************************************************************************)
(* The five patterns of cache_keys.py.  Each Match gives the exclusive end *)
(* of the match that starts at i, or 0 when the pattern does not match at  *)
(* i, following the greedy, backtracking search of Python's re.            *)
(***************************************************************************)
(* RE_MONEY  \$[\d,]+(?:\.\d+)?                                            *)
MatchMoney(s, i) ==
    IF s[i] = "$" /\ RunEnd(s, i + 1, Digits \cup {","}) > i + 1
    THEN FracEnd(s, RunEnd(s, i + 1, Digits \cup {","}))
    ELSE 0

(* RE_PERCENT  \b\d+(\.\d+)?%                                              *)
MatchPercent(s, i) ==
    IF ~(Boundary(s, i) /\ IsDigit(s[i])) THEN 0
    ELSE LET j == RunEnd(s, i, Digits)
             k == FracEnd(s, j)
         IN  IF k <= Len(s) /\ s[k] = "%" THEN k + 1
             ELSE IF j <= Len(s) /\ s[j] = "%" THEN j + 1
             ELSE 0

(* RE_YEAR  \b(19|20)\d{2}\b                                               *)
MatchYear(s, i) ==
    IF /\ Boundary(s, i)
       /\ i + 3 <= Len(s)
       /\ <<s[i], s[i + 1]>> \in {<<"1", "9">>, <<"2", "0">>}
       /\ IsDigit(s[i + 2]) /\ IsDigit(s[i + 3])
       /\ Boundary(s, i + 4)
    THEN i + 4
    ELSE 0

(* RE_NUMBER  \b\d+(\.\d+)?\b                                              *)
MatchNumber(s, i) ==
    IF ~(Boundary(s, i) /\ IsDigit(s[i])) THEN 0
    ELSE LET j == RunEnd(s, i, Digits)
             k == FracEnd(s, j)
         IN  IF Boundary(s, k) THEN k
             ELSE IF Boundary(s, j) THEN j
             ELSE 0

(* RE_EMAIL  \b\S+@\S+\b : the last "@" of the token that leaves a         *)
(* non-empty tail ending at a word boundary, and the longest such tail.    *)
MatchEmail(s, i) ==
    IF ~(Boundary(s, i) /\ ~IsSpace(s[i])) THEN 0
    ELSE LET e == TokenEnd(s, i)
             Tails(p) == {t \in (p + 2)..e : Boundary(s, t)}
             Ats == {p \in (i + 1)..(e - 1) : s[p] = "@" /\ Tails(p) # {}}
         IN  IF Ats = {} THEN 0
             ELSE LET p == CHOOSE x \in Ats : \A y \in Ats : y <= x
                  IN  CHOOSE t \in Tails(p) : \A u \in Tails(p) : u <= t

Match(kind, s, i) ==
    CASE kind = "[EMAIL]"   -> MatchEmail(s, i)
      [] kind = "[AMOUNT]"  -> MatchMoney(s, i)
      [] kind = "[PERCENT]" -> MatchPercent(s, i)
      [] kind = "[YEAR]"    -> MatchYear(s, i)
      [] kind = "[NUMBER]"  -> MatchNumber(s, i)

(* RE.sub(placeholder, s): leftmost matches, left to right.                *)
RECURSIVE SubFrom(_, _, _)
SubFrom(kind, s, i) ==
    IF i > Len(s) THEN <<>>
    ELSE LET m == Match(kind, s, i)
         IN  IF m > 0 THEN <<kind>> \o SubFrom(kind, s, m)
             ELSE <<s[i]>> \o SubFrom(kind, s, i + 1)

Sub(kind, s) == SubFrom(kind, s, 1)

MaskOrder == <<"[EMAIL]", "[AMOUNT]", "[PERCENT]", "[YEAR]", "[NUMBER]">>

RECURSIVE ApplySubs(_, _)
ApplySubs(order, s) ==
    IF order = <<>> THEN s ELSE ApplySubs(Tail(order), Sub(Head(order), s))

mask_entities(q) == ApplySubs(MaskOrder, normalize_question(q))

(***************************************************************************)
(* Settings (app/core/config.py).  The values a deployment may override    *)
(* are fields of the variable settings; the others are constants.          *)
(***************************************************************************)
MAX_TOP_K == 20
MAX_QUESTION_CHARS == 500
SNIPPET_CHARS == 400
(* SEMANTIC_CACHE_THRESHOLD = 0.75 = 3/4; QA_MIN_SCORE = 0.15, in percent.  *)
SEMANTIC_CACHE_THRESHOLD_NUM == 3
SEMANTIC_CACHE_THRESHOLD_DEN == 4
QA_MIN_SCORE == 15
(* 1e-8, the guard of the cosine denominator, in squared vector units.     *)
SIM_EPSILON == 1

DefaultSettings ==
    [ QA_MODEL_NAME |-> "qa1", EMBEDDING_MODEL_NAME |-> "emb1",
      NER_MODEL_NAME |-> "ner1",
      CHUNK_SIZE_CHARS |-> 4, CHUNK_OVERLAP_CHARS |-> 0,
      CHUNK_SEPARATORS |-> << <<" ">>, <<>> >>,
      MAX_CHUNKS_PER_DOC |-> 3, MAX_CHUNKS_TO_EMBED |-> 3,
      EMBEDDING_BATCH_SIZE |-> 2, EMBEDDING_NORMALIZE |-> TRUE,
      ENABLE_CACHE |-> TRUE, ENABLE_SEMANTIC_CACHE |-> TRUE ]

(***************************************************************************)
(* Cache keys (cache_keys.py, embed_cunks.py).  A formatted string is the  *)
(* tuple of its fields and a SHA-256 digest is a tagged copy of its input: *)
(* two keys are equal exactly when all their fields are.                   *)
(***************************************************************************)
sha256_hex(x) == <<"sha256", x>>

_chunking_version(s) ==
    <<"sha256_16",
      <<s.CHUNK_SIZE_CHARS, s.CHUNK_OVERLAP_CHARS, s.CHUNK_SEPARATORS>> >>

pipeline_version(s) ==
    <<"qa", s.QA_MODEL_NAME, "emb", s.EMBEDDING_MODEL_NAME,
      "ner", s.NER_MODEL_NAME, "chunk", s.CHUNK_SIZE_CHARS,
      s.CHUNK_OVERLAP_CHARS>>

index_version == "v1"

qemb_key(s, question) ==
    <<"qemb", s.EMBEDDING_MODEL_NAME, _chunking_version(s),
      sha256_hex(normalize_question(question))>>

retr_key(scope, iv, doc_id, question, top_k) ==
    <<"retr", scope, iv, doc_id, sha256_hex(normalize_question(question)), top_k>>

ans_key(scope, pv, question, top_k) ==
    <<"ans", scope, pv, sha256_hex(normalize_question(question)), top_k>>

sem_key(scope, pv, question, top_k) ==
    <<"sem", scope, pv, sha256_hex(mask_entities(question)), top_k>>

(* mk + ":emb", mk + ":resp" *)
Suffix(key, sfx) == Append(key, sfx)

(***************************************************************************)
(* The key-value store (redis_cache.py): GET gives a miss for an absent    *)
(* key and for a payload that does not decode (the except branches of      *)
(* get_json and get_embedding), SET overwrites the payload.  The condition *)
(* of a stored payload is kept in the store next to it: Undecodable(key)   *)
(* is present when the bytes under key do not decode, Misshapen(key) when  *)
(* they decode to JSON that is not of the shape the reader expects.        *)
(***************************************************************************)
Undecodable(key) == <<"undecodable", key>>
Misshapen(key) == <<"misshapen", key>>

cache_get(store, key) ==
    IF key \in DOMAIN store /\ Undecodable(key) \notin DOMAIN store
    THEN [hit |-> TRUE, value |-> store[key]]
    ELSE [hit |-> FALSE, value |-> None]

cache_set(store, key, value) ==
    [k \in (DOMAIN store \ {Undecodable(key), Misshapen(key)}) \cup {key} |->
        IF k = key THEN value ELSE store[k]]

(***************************************************************************)
(* Vectors and the embedding collaborator.  encode_texts is deterministic  *)
(* for a text and a model (its contract): the direction is a fixed         *)
(* function of the text and the model name, the length is a property of    *)
(* the attached service ("unit" normalised, "tiny" of norm 1e-4, "zero").  *)
(***************************************************************************)
Dirs == << <<10000, 0>>, <<6000, 8000>>, <<0, 10000>> >>
Vectors == {Dirs[i] : i \in 1..3} \cup {<<1, 0>>, <<0, 0>>}

Dot(a, b) == a[1] * b[1] + a[2] * b[2]
Norm(a) == CHOOSE n \in {0, 1, 10000} : n * n = Dot(a, a)
SqDist(a, b) == Dot(<<a[1] - b[1], a[2] - b[2]>>, <<a[1] - b[1], a[2] - b[2]>>)

ModelOffset(name) == IF name = "emb1" THEN 0 ELSE 1

encode_texts(svc, s, text) ==
    CASE svc = "zero" -> <<0, 0>>
      [] svc = "tiny" -> <<1, 0>>
      [] OTHER -> Dirs[((Len(text) + ModelOffset(s.EMBEDDING_MODEL_NAME)) % 3) + 1]

(* ask.py 168-170: shapes agree and                                        *)
(* dot(cur, prev) / (|cur| |prev| + 1e-8) >= SEMANTIC_CACHE_THRESHOLD.     *)
(* The comparison reversed. *)
semantic_hit_reversed(cur, prev) ==
    /\ Len(cur) = Len(prev)
    /\ SEMANTIC_CACHE_THRESHOLD_DEN * Dot(cur, prev)
         < SEMANTIC_CACHE_THRESHOLD_NUM * (Norm(cur) * Norm(prev) + SIM_EPSILON)

semantic_hit(cur, prev) ==
    /\ Len(cur) = Len(prev)
    /\ SEMANTIC_CACHE_THRESHOLD_DEN * Dot(cur, prev)
         >= SEMANTIC_CACHE_THRESHOLD_NUM * (Norm(cur) * Norm(prev) + SIM_EPSILON)

(* The cosine similarity proper, where it is defined. *)
CosineAtLeastThreshold(cur, prev) ==
    /\ Norm(cur) * Norm(prev) > 0
    /\ SEMANTIC_CACHE_THRESHOLD_DEN * Dot(cur, prev)
         >= SEMANTIC_CACHE_THRESHOLD_NUM * Norm(cur) * Norm(prev)

(***************************************************************************)
(* Retriever (retriever.py) over one document's artifacts.                 *)
(***************************************************************************)
(* _load_row_to_chunk_id: the list built from the metadata lines, in file  *)
(* order; "" pads the rows that were skipped.                              *)
RECURSIVE Pad(_, _)
Pad(row_to_id, row) ==
    IF Len(row_to_id) < row THEN Pad(Append(row_to_id, ""), row) ELSE row_to_id

RECURSIVE load_rows(_, _)
load_rows(lines, row_to_id) ==
    IF lines = <<>> THEN row_to_id
    ELSE LET row == Head(lines).row
             cid == Head(lines).chunk_id
         IN  load_rows(Tail(lines),
                 IF row = Len(row_to_id)
                 THEN Append(row_to_id, cid)
                 ELSE Append(Pad(row_to_id, row), cid))

_load_row_to_chunk_id(lines) == load_rows(lines, <<>>)

(* _load_chunk_text_map: chunk_id -> the last line of chunks.jsonl with it *)
_load_chunk_text_map(chunks) ==
    [cid \in {chunks[i].chunk_id : i \in 1..Len(chunks)} |->
        LET at == {i \in 1..Len(chunks) : chunks[i].chunk_id = cid}
        IN  chunks[CHOOSE i \in at : \A j \in at : j <= i]]

(* faiss search on a flat index: the rows ranked best first (largest inner *)
(* product, or smallest squared distance), ties by the lower row, cut or   *)
(* padded with -1 to top_k entries.                                        *)
RowScore(index, q, r) ==
    IF index.index_type = "IndexFlatIP"
    THEN Dot(q, index.rows[r + 1])
    ELSE SqDist(q, index.rows[r + 1])

Better(index, q, a, b) ==
    LET sa == RowScore(index, q, a)
        sb == RowScore(index, q, b)
    IN  IF sa = sb THEN a < b
        ELSE IF index.index_type = "IndexFlatIP" THEN sa > sb ELSE sa < sb

RECURSIVE Rank(_, _, _)
Rank(index, q, remaining) ==
    IF remaining = {} THEN <<>>
    ELSE LET b == CHOOSE r \in remaining :
                     \A o \in remaining \ {r} : Better(index, q, r, o)
         IN  <<b>> \o Rank(index, q, remaining \ {b})

(* search_index without the ranking: the rows in their order. *)
search_index_in_row_order(index, q, top_k) ==
    [j \in 1..top_k |->
        IF j <= Len(index.rows)
        THEN [row |-> j - 1, score |-> RowScore(index, q, j - 1)]
        ELSE [row |-> -1, score |-> 0]]

search_index(index, q, top_k) ==
    LET ranked == Rank(index, q, 0..(Len(index.rows) - 1))
    IN  [j \in 1..top_k |->
            IF j <= Len(ranked)
            THEN [row |-> ranked[j], score |-> RowScore(index, q, ranked[j])]
            ELSE [row |-> -1, score |-> 0]]

Take(seq, n) == SubSeq(seq, 1, Min(n, Len(seq)))

Clamp(top_k) == IF top_k < 1 THEN 1 ELSE IF top_k > MAX_TOP_K THEN MAX_TOP_K ELSE top_k

(* RetrieverService.search, lines 103-132: the hits of the returned rows,  *)
(* rows without a chunk id skipped.                                        *)
RECURSIVE resolve_rows(_, _, _, _)
resolve_rows(doc_id, found, row_to_id, chunk_map) ==
    IF found = <<>> THEN <<>>
    ELSE LET row == Head(found).row
             rest == resolve_rows(doc_id, Tail(found), row_to_id, chunk_map)
         IN  IF row < 0 \/ row >= Len(row_to_id) THEN rest
             ELSE IF row_to_id[row + 1] = "" THEN rest
             ELSE LET cid == row_to_id[row + 1]
                      known == cid \in DOMAIN chunk_map
                  IN  << [ doc_id |-> doc_id, chunk_id |-> cid,
                           score |-> Head(found).score,
                           page |-> IF known THEN Some(chunk_map[cid].page) ELSE Absent,
                           chunk_index |->
                               IF known THEN Some(chunk_map[cid].chunk_index) ELSE Absent,
                           text_snippet |->
                               IF known THEN Take(chunk_map[cid].text, SNIPPET_CHARS)
                               ELSE <<>> ] >> \o rest

(* [raised, hits]: FileNotFoundError when an artifact is missing.          *)
retriever_search(f, doc_id, top_k, q_emb) ==
    IF ~Exists(f.index) \/ ~Exists(f.meta) \/ ~Exists(f.chunks)
    THEN [raised |-> TRUE, hits |-> <<>>]
    ELSE [raised |-> FALSE,
          hits |-> resolve_rows(doc_id,
                       search_index(Content(f.index), q_emb, Clamp(top_k)),
                       _load_row_to_chunk_id(Content(f.meta)),
                       _load_chunk_text_map(Content(f.chunks)))]

(***************************************************************************)
(* Merge of the per-document hits: sorted(key=score, reverse=True), which  *)
(* keeps equal scores in their order of arrival, then the slice.           *)
(***************************************************************************)
RECURSIVE InsertByScore(_, _)
InsertByScore(h, sorted) ==
    IF sorted = <<>> THEN <<h>>
    ELSE IF Head(sorted).score >= h.score
         THEN <<Head(sorted)>> \o InsertByScore(h, Tail(sorted))
         ELSE <<h>> \o sorted

RECURSIVE SortedByScoreDesc(_, _)
SortedByScoreDesc(hits, acc) ==
    IF hits = <<>> THEN acc
    ELSE SortedByScoreDesc(Tail(hits), InsertByScore(Head(hits), acc))

(* The slice without the sort. *)
merge_hits_unsorted(all_hits, top_k) ==
    Take(all_hits, Max(1, Min(top_k, MAX_TOP_K)))

(* ask.py 231-233 *)
merge_hits(all_hits, top_k) ==
    Take(SortedByScoreDesc(all_hits, <<>>), Max(1, Min(top_k, MAX_TOP_K)))

RECURSIVE Concat(_)
Concat(lists) == IF lists = <<>> THEN <<>> ELSE Head(lists) \o Concat(Tail(lists))

(* ask_pipeline.py 51-76, given the per-document results of search with    *)
(* per_doc_k: clamp, concatenate, sort, slice.                             *)
retrieve_multi_doc(per_doc_hits, top_k) ==
    Take(SortedByScoreDesc(Concat(per_doc_hits), <<>>), Clamp(top_k))

(***************************************************************************)
(* No-answer policy (ask_pipeline.py 99-108).  A QA result is              *)
(* [answer, score], score an optional percentage.                          *)
(***************************************************************************)
REFUSAL == "I don't know based on the provided documents."

(* The policy with the score test only. *)
no_answer_policy_score_only(qa_res, sources) ==
    IF Exists(qa_res.score) /\ Content(qa_res.score) < QA_MIN_SCORE
    THEN [answer |-> REFUSAL, confidence |-> qa_res.score, sources |-> sources]
    ELSE [answer |-> qa_res.answer, confidence |-> qa_res.score, sources |-> sources]

no_answer_policy(qa_res, sources) ==
    IF qa_res.answer = "" \/ (Exists(qa_res.score) /\ Content(qa_res.score) < QA_MIN_SCORE)
    THEN [answer |-> REFUSAL, confidence |-> qa_res.score, sources |-> sources]
    ELSE [answer |-> qa_res.answer, confidence |-> qa_res.score, sources |-> sources]

(* answer_with_sources(question, sources, qa): the context is built from   *)
(* the sources, the QA collaborator answers (qa_res), the policy applies.  *)
answer_with_sources(sources, qa_res) == no_answer_policy(qa_res, sources)

(* ask_over_docs (79-108), given what the search of each document returned *)
(* and what the QA collaborator answers: an empty question is answered     *)
(* with "" and no sources, without a QA call.                              *)
ask_over_docs(question, per_doc_hits, top_k, qa_res) ==
    IF normalize_question(question) = <<>>
    THEN [answer |-> "", confidence |-> Absent, sources |-> <<>>]
    ELSE no_answer_policy(qa_res, retrieve_multi_doc(per_doc_hits, top_k))

(***************************************************************************)
(* Chunker (chunking.py).                                                  *)
(***************************************************************************)
(* text.split(sep), sep a non-empty sequence of characters.                *)
RECURSIVE SplitFrom(_, _, _, _)
SplitFrom(text, sep, i, cur) ==
    IF i > Len(text) THEN <<cur>>
    ELSE IF i + Len(sep) - 1 <= Len(text) /\ SubSeq(text, i, i + Len(sep) - 1) = sep
         THEN <<cur>> \o SplitFrom(text, sep, i + Len(sep), <<>>)
         ELSE SplitFrom(text, sep, i + 1, Append(cur, text[i]))

Split(text, sep) == SplitFrom(text, sep, 1, <<>>)

RECURSIVE JoinLines(_)
JoinLines(lines) ==
    IF lines = <<>> THEN <<>>
    ELSE IF Len(lines) = 1 THEN Head(lines)
    ELSE Head(lines) \o <<"\n">> \o JoinLines(Tail(lines))

(* _normalize: strip the text, strip every line, keep the newlines.        *)
_normalize(text) ==
    LET lines == Split(Strip(text), <<"\n">>)
    IN  JoinLines([i \in 1..Len(lines) |-> Strip(lines[i])])

StripAll(chunks) ==
    SelectSeq([i \in 1..Len(chunks) |-> Strip(chunks[i])], LAMBDA c : c # <<>>)

(* The hard split: pieces of max_len characters.                           *)
RECURSIVE HardSplit(_, _)
HardSplit(text, max_len) ==
    IF text = <<>> THEN <<>>
    ELSE <<Take(text, max_len)>> \o
         HardSplit(SubSeq(text, Min(max_len, Len(text)) + 1, Len(text)), max_len)

RECURSIVE _recursive_split(_, _, _)
RECURSIVE Accumulate(_, _, _, _, _)

(* The loop of lines 109-124: [current] grows while the candidate fits.    *)
Accumulate(parts, current, sep, max_len, rest_seps) ==
    IF parts = <<>>
    THEN IF current # <<>> THEN _recursive_split(current, max_len, rest_seps) ELSE <<>>
    ELSE LET part == Strip(Head(parts))
             candidate == IF current = <<>> THEN part ELSE current \o sep \o part
         IN  IF part = <<>> THEN Accumulate(Tail(parts), current, sep, max_len, rest_seps)
             ELSE IF Len(candidate) <= max_len
                  THEN Accumulate(Tail(parts), candidate, sep, max_len, rest_seps)
                  ELSE (IF current # <<>>
                        THEN _recursive_split(current, max_len, rest_seps)
                        ELSE <<>>)
                       \o Accumulate(Tail(parts), part, sep, max_len, rest_seps)

_recursive_split(text0, max_len, seps) ==
    LET text == Strip(text0)
    IN  IF text = <<>> THEN <<>>
        ELSE IF Len(text) <= max_len THEN <<text>>
        ELSE IF Head(seps) = <<>> THEN StripAll(HardSplit(text, max_len))
        ELSE IF Len(Split(text, Head(seps))) = 1
             THEN _recursive_split(text, max_len, Tail(seps))
             ELSE StripAll(Accumulate(Split(text, Head(seps)), <<>>, Head(seps),
                                      max_len, Tail(seps)))

(* _apply_overlap: each chunk after the first gets the tail of the chunk   *)
(* emitted before it, a space, and is stripped.                            *)
RECURSIVE OverlapFrom(_, _, _)
OverlapFrom(chunks, overlap, out) ==
    IF chunks = <<>> THEN out
    ELSE LET prev == out[Len(out)]
             tail == IF Len(prev) > overlap
                     THEN SubSeq(prev, Len(prev) - overlap + 1, Len(prev))
                     ELSE prev
         IN  OverlapFrom(Tail(chunks), overlap,
                         Append(out, Strip(tail \o <<" ">> \o Head(chunks))))

(* _apply_overlap taking the tail from the chunk as split, not as emitted. *)
_apply_overlap_of_split(chunks, overlap) ==
    IF chunks = <<>> \/ overlap <= 0 THEN chunks
    ELSE [i \in 1..Len(chunks) |->
             IF i = 1 THEN chunks[1]
             ELSE LET prev == chunks[i - 1]
                      tail == IF Len(prev) > overlap
                              THEN SubSeq(prev, Len(prev) - overlap + 1, Len(prev))
                              ELSE prev
                  IN  Strip(tail \o <<" ">> \o chunks[i])]

_apply_overlap(chunks, overlap) ==
    IF chunks = <<>> \/ overlap <= 0 THEN chunks
    ELSE OverlapFrom(Tail(chunks), overlap, <<Head(chunks)>>)

_stable_chunk_id(doc_id, page, chunk_index, text) ==
    <<"sha256_24", doc_id, page, chunk_index, Take(text, 200)>>

(* build_chunks_for_doc over the pages of text.json: [raised, chunks];     *)
(* TOO_MANY_CHUNKS as soon as the counter passes MAX_CHUNKS_PER_DOC.       *)
RECURSIVE PageChunks(_, _, _, _)
PageChunks(doc_id, page, texts, counter) ==
    IF texts = <<>> THEN <<>>
    ELSE << [ chunk_id |-> _stable_chunk_id(doc_id, page, counter, Head(texts)),
              doc_id |-> doc_id, page |-> page, chunk_index |-> counter,
              text |-> Head(texts) ] >>
         \o PageChunks(doc_id, page, Tail(texts), counter + 1)

RECURSIVE PagesChunks(_, _, _, _)
PagesChunks(s, doc_id, pages, counter) ==
    IF pages = <<>> THEN <<>>
    ELSE IF Head(pages).page <= 0 THEN PagesChunks(s, doc_id, Tail(pages), counter)
    ELSE LET texts == _apply_overlap(
                          _recursive_split(_normalize(Head(pages).text),
                                           s.CHUNK_SIZE_CHARS, s.CHUNK_SEPARATORS),
                          s.CHUNK_OVERLAP_CHARS)
         IN  PageChunks(doc_id, Head(pages).page, texts, counter)
             \o PagesChunks(s, doc_id, Tail(pages), counter + Len(texts))

(* build_chunks_for_doc raising already at MAX_CHUNKS_PER_DOC chunks. *)
build_chunks_for_doc_at_limit(s, doc_id, pages) ==
    LET chunks == PagesChunks(s, doc_id, pages, 0)
    IN  [raised |-> Len(chunks) >= s.MAX_CHUNKS_PER_DOC, chunks |-> chunks]

build_chunks_for_doc(s, doc_id, pages) ==
    LET chunks == PagesChunks(s, doc_id, pages, 0)
    IN  [raised |-> Len(chunks) > s.MAX_CHUNKS_PER_DOC, chunks |-> chunks]

(***************************************************************************)
(* Build endpoints.  The artifacts of one document are a record of         *)
(* optional files; each endpoint gives [code, status, f], f the artifacts  *)
(* after the call.                                                         *)
(***************************************************************************)
NoFiles ==
    [ text |-> Absent, chunks |-> Absent, chunk_map |-> Absent,
      meta |-> Absent, npy |-> Absent, info |-> Absent,
      index |-> Absent, index_meta |-> Absent ]

Reply(code, status, f) == [code |-> code, status |-> status, f |-> f]

(* The chunk endpoint with chunks.jsonl opened for appending. *)
chunk_document_appending(s, f, doc_id, force) ==
    IF Exists(f.chunks) /\ Exists(f.chunk_map) /\ ~force
    THEN Reply(200, "already_chunked", f)
    ELSE IF ~Exists(f.text) THEN Reply(404, "error", f)
    ELSE LET built == build_chunks_for_doc(s, doc_id, Content(f.text))
             kept == IF Exists(f.chunks) THEN Content(f.chunks) ELSE <<>>
         IN  IF built.raised THEN Reply(413, "error", f)
             ELSE Reply(200, "chunked",
                        [f EXCEPT !.chunks = Some(kept \o built.chunks),
                                  !.chunk_map = Some(
                                      [ chunking |-> <<s.CHUNK_SIZE_CHARS,
                                                       s.CHUNK_OVERLAP_CHARS,
                                                       s.CHUNK_SEPARATORS>>,
                                        chunks |->
                                            [i \in 1..Len(built.chunks) |->
                                                built.chunks[i].chunk_id] ])])

(* The chunk endpoint without its already_chunked answer. *)
chunk_document_always(s, f, doc_id, force) ==
    IF ~Exists(f.text) THEN Reply(404, "error", f)
    ELSE LET built == build_chunks_for_doc(s, doc_id, Content(f.text))
         IN  IF built.raised THEN Reply(413, "error", f)
             ELSE Reply(200, "chunked",
                        [f EXCEPT !.chunks = Some(built.chunks),
                                  !.chunk_map = Some(
                                      [ chunking |-> <<s.CHUNK_SIZE_CHARS,
                                                       s.CHUNK_OVERLAP_CHARS,
                                                       s.CHUNK_SEPARATORS>>,
                                        chunks |->
                                            [i \in 1..Len(built.chunks) |->
                                                built.chunks[i].chunk_id] ])])

(* POST /documents/{doc_id}/chunk (chunk.py 19-60, save_chunks)            *)
chunk_document(s, f, doc_id, force) ==
    IF Exists(f.chunks) /\ Exists(f.chunk_map) /\ ~force
    THEN Reply(200, "already_chunked", f)
    ELSE IF ~Exists(f.text) THEN Reply(404, "error", f)
    ELSE LET built == build_chunks_for_doc(s, doc_id, Content(f.text))
         IN  IF built.raised THEN Reply(413, "error", f)
             ELSE Reply(200, "chunked",
                        [f EXCEPT !.chunks = Some(built.chunks),
                                  !.chunk_map = Some(
                                      [ chunking |-> <<s.CHUNK_SIZE_CHARS,
                                                       s.CHUNK_OVERLAP_CHARS,
                                                       s.CHUNK_SEPARATORS>>,
                                        chunks |->
                                            [i \in 1..Len(built.chunks) |->
                                                built.chunks[i].chunk_id] ])])

(* _batched *)
RECURSIVE _batched(_, _)
_batched(items, batch_size) ==
    IF items = <<>> THEN <<>>
    ELSE <<Take(items, batch_size)>> \o
         _batched(SubSeq(items, Min(batch_size, Len(items)) + 1, Len(items)), batch_size)

MetaLines(batch, row_count) ==
    [i \in 1..Len(batch) |->
        [ row |-> row_count + i - 1, chunk_id |-> batch[i].chunk_id,
          doc_id |-> batch[i].doc_id, page |-> batch[i].page,
          chunk_index |-> batch[i].chunk_index ]]

(* The batch loop of embed_document_chunks (93-119).  enc tells which      *)
(* batch, if any, the collaborator answers badly ("bad_shape": an array    *)
(* that is not 2-D, "raise": an exception).  [error, rows, lines].         *)
RECURSIVE embed_batches(_, _, _, _, _, _, _)
embed_batches(s, svc, batches, b, enc, rows, lines) ==
    IF batches = <<>> THEN [error |-> "", rows |-> rows, lines |-> lines]
    ELSE LET batch == Head(batches)
         IN  IF Len(rows) + Len(batch) > s.MAX_CHUNKS_TO_EMBED
             THEN [error |-> "TOO_MANY_CHUNKS_TO_EMBED", rows |-> rows, lines |-> lines]
             ELSE IF enc.fail_at = b
             THEN [error |-> enc.how, rows |-> rows, lines |-> lines]
             ELSE embed_batches(s, svc, Tail(batches), b + 1, enc,
                      rows \o [i \in 1..Len(batch) |-> encode_texts(svc, s, batch[i].text)],
                      lines \o MetaLines(batch, Len(rows)))

(* embed_document_chunks (73-144): the metadata file is opened for writing *)
(* first, so it is emptied even when nothing follows; the lines written    *)
(* before a failure stay; the matrix and the manifest are written last.    *)
embed_document_chunks(s, svc, f, enc) ==
    IF ~Exists(f.chunks)
    THEN [error |-> "CHUNKS_NOT_FOUND", f |-> [f EXCEPT !.meta = Some(<<>>)]]
    ELSE LET done == embed_batches(s, svc,
                         _batched(Content(f.chunks), s.EMBEDDING_BATCH_SIZE),
                         1, enc, <<>>, <<>>)
         IN  IF done.error # ""
             THEN [error |-> done.error, f |-> [f EXCEPT !.meta = Some(done.lines)]]
             ELSE [error |-> "",
                   f |-> [f EXCEPT !.meta = Some(done.lines),
                                   !.npy = Some(done.rows),
                                   !.info = Some(
                              [ row_count |-> Len(done.rows),
                                dim |-> IF done.rows = <<>> THEN 0 ELSE 2,
                                embedding_model |-> s.EMBEDDING_MODEL_NAME,
                                normalize |-> s.EMBEDDING_NORMALIZE,
                                chunking_version |-> _chunking_version(s) ])]]

(* POST /documents/{doc_id}/embed (embeddings.py 23-79)                    *)
embed_document(s, a, f, doc_id, force, enc) ==
    IF Exists(f.npy) /\ Exists(f.meta) /\ Exists(f.info) /\ ~force
    THEN Reply(200, "already_embedded", f)
    ELSE IF a.embedding_service = None THEN Reply(500, "error", f)
    ELSE LET res == embed_document_chunks(s, a.embedding_service, f, enc)
         IN  CASE res.error = "" -> Reply(200, "embedded", res.f)
               [] res.error = "CHUNKS_NOT_FOUND" -> Reply(404, "error", res.f)
               [] res.error = "TOO_MANY_CHUNKS_TO_EMBED" -> Reply(413, "error", res.f)
               [] res.error = "bad_shape" -> Reply(400, "error", res.f)
               [] OTHER -> Reply(500, "error", res.f)

(* POST /documents/{doc_id}/index (vectorstore.py 20-57, build_faiss_index)*)
build_index(s, f, doc_id, force) ==
    IF Exists(f.index) /\ Exists(f.index_meta) /\ ~force
    THEN Reply(200, "already_indexed", f)
    ELSE IF ~Exists(f.info) \/ ~Exists(f.npy) THEN Reply(404, "error", f)
    ELSE LET info == Content(f.info)
             mat == Content(f.npy)
             dim == IF mat = <<>> THEN 0 ELSE Len(mat[1])
             type == IF info.normalize THEN "IndexFlatIP" ELSE "IndexFlatL2"
         IN  IF dim <= 0 THEN Reply(400, "error", f)
             ELSE Reply(200, "indexed",
                        [f EXCEPT !.index = Some([rows |-> mat, index_type |-> type]),
                                  !.index_meta = Some(
                                      [ row_count |-> Len(mat), dim |-> dim,
                                        index_type |-> type,
                                        embedding_model |-> info.embedding_model,
                                        chunking_version |-> info.chunking_version ])])

(* The exception build_faiss_index ends with ("" when it returns), and the *)
(* detail of the response the route makes of it (vectorstore.py 43-48).    *)
build_faiss_index_error(f) ==
    IF ~Exists(f.info) THEN "EMBEDDINGS_INFO_NOT_FOUND"
    ELSE IF ~Exists(f.npy) THEN "EMBEDDINGS_NPY_NOT_FOUND"
    ELSE IF Content(f.npy) = <<>> \/ Len(Content(f.npy)[1]) <= 0 THEN "INVALID_DIM"
    ELSE ""

build_index_detail(f) ==
    LET e == build_faiss_index_error(f)
    IN  CASE e \in {"EMBEDDINGS_INFO_NOT_FOUND", "EMBEDDINGS_NPY_NOT_FOUND"}
               -> "Embeddings not found. Run /embed first."
          [] e = "INVALID_DIM" -> "Failed to build FAISS index."
          [] OTHER -> ""

(* The counts a successful call reports: chunk_count is the number of      *)
(* lines of chunks.jsonl (already_chunked) or of chunks just saved;        *)
(* row_count and dim are read from embeddings_info.json or faiss_meta.json *)
(* (already_embedded, already_indexed) or are the ones just written there. *)
response_counts(op, f) ==
    CASE op = "chunk" -> <<Len(Content(f.chunks))>>
      [] op = "embed" -> <<Content(f.info).row_count, Content(f.info).dim>>
      [] op = "index" -> <<Content(f.index_meta).row_count, Content(f.index_meta).dim>>

(***************************************************************************)
(* POST /ask (ask.py 107-279).  The handler is a function of the settings, *)
(* the attached collaborators, the store, the artifacts, the request body  *)
(* and what the QA and NER collaborators answer; it gives the status code, *)
(* the response, the store afterwards and the trace of what it did: events *)
(* <<op, layer, doc_id>>.                                                  *)
(***************************************************************************)
Ev(op, layer, doc) == <<op, layer, doc>>

NoResponse ==
    [answer |-> "", confidence |-> Absent, sources |-> <<>>, entities |-> <<>>]

Out(code, response, layer, store, trace) ==
    [code |-> code, response |-> response, layer |-> layer,
     store |-> store, trace |-> trace]

(* list_indexed_docs: the directories that hold faiss.index, in the order  *)
(* the directory listing gives them.                                       *)
list_indexed_docs(fs, listing) ==
    SelectSeq(listing, LAMBDA d : Exists(fs[d].index))

(* validate_doc_ids: ids of the right form whose faiss.index exists.       *)
validate_doc_ids(fs, doc_ids) ==
    SelectSeq(doc_ids, LAMBDA d : d \in DOMAIN fs /\ Exists(fs[d].index))

(* 1) ask.py 157-174 *)
semantic_layer(s, a, store, body, qn) ==
    LET mk == sem_key(body.scope, pipeline_version(s), qn, body.top_k)
        emb_hit == cache_get(store, Suffix(mk, ":emb"))
        resp_hit == cache_get(store, Suffix(mk, ":resp"))
        read == <<Ev("get", "semantic", "-")>>
    IN  IF emb_hit.hit /\ resp_hit.hit
        THEN LET cur == encode_texts(a.embedding_service, s, mask_entities(qn))
             IN  [ hit |-> semantic_hit(cur, emb_hit.value),
                   value |-> resp_hit.value,
                   valid |-> Misshapen(Suffix(mk, ":resp")) \notin DOMAIN store,
                   trace |-> read \o <<Ev("encode", "semantic", "-")>> ]
        ELSE [hit |-> FALSE, value |-> NoResponse, valid |-> TRUE, trace |-> read]

(* The exact-answer layer that never finds its entry. *)
answer_layer_miss(s, store, body, qn) ==
    [hit |-> FALSE, value |-> NoResponse, valid |-> TRUE,
     trace |-> <<Ev("get", "answer", "-")>>]

(* 2) ask.py 176-186 *)
answer_layer(s, store, body, qn) ==
    LET ak == ans_key(body.scope, pipeline_version(s), qn, body.top_k)
        got == cache_get(store, ak)
    IN  [ hit |-> got.hit,
          value |-> IF got.hit THEN got.value ELSE NoResponse,
          valid |-> Misshapen(ak) \notin DOMAIN store,
          trace |-> <<Ev("get", "answer", "-")>> ]

(* 3) with the question encoded even when its embedding was found. *)
qemb_layer_encoding(s, a, store, qn, use_cache) ==
    LET q == encode_texts(a.embedding_service, s, qn)
        found == use_cache /\ cache_get(store, qemb_key(s, qn)).hit
    IN  IF found
        THEN [ q_emb |-> q, store |-> store,
               trace |-> <<Ev("get", "qemb", "-"), Ev("hit", "qemb", "-"),
                           Ev("encode", "qemb", "-")>> ]
        ELSE IF use_cache
        THEN [ q_emb |-> q, store |-> cache_set(store, qemb_key(s, qn), q),
               trace |-> <<Ev("get", "qemb", "-"), Ev("encode", "qemb", "-"),
                           Ev("set", "qemb", "-")>> ]
        ELSE [q_emb |-> q, store |-> store, trace |-> <<Ev("encode", "qemb", "-")>>]

(* 3) ask.py 188-200 *)
qemb_layer(s, a, store, qn, use_cache) ==
    IF use_cache
    THEN LET ek == qemb_key(s, qn)
             got == cache_get(store, ek)
         IN  IF got.hit
             THEN [ q_emb |-> got.value, store |-> store,
                    trace |-> <<Ev("get", "qemb", "-"), Ev("hit", "qemb", "-")>> ]
             ELSE LET q == encode_texts(a.embedding_service, s, qn)
                  IN  [ q_emb |-> q, store |-> cache_set(store, ek, q),
                        trace |-> <<Ev("get", "qemb", "-"), Ev("encode", "qemb", "-"),
                                    Ev("set", "qemb", "-")>> ]
    ELSE [ q_emb |-> encode_texts(a.embedding_service, s, qn), store |-> store,
           trace |-> <<Ev("encode", "qemb", "-")>> ]

(* 4) ask.py 202-229: [raised, hits, store, trace] *)
RECURSIVE retrieval_layer(_, _, _, _, _, _, _, _, _)
retrieval_layer(store, fs, body, qn, q_emb, doc_ids, use_cache, all_hits, trace) ==
    IF doc_ids = <<>>
    THEN [raised |-> FALSE, hits |-> all_hits, store |-> store, trace |-> trace]
    ELSE LET did == Head(doc_ids)
             rk == retr_key(body.scope, index_version, did, qn, body.top_k)
             rc == IF use_cache THEN cache_get(store, rk) ELSE [hit |-> FALSE]
             read == IF use_cache THEN <<Ev("get", "retrieval", did)>> ELSE <<>>
         IN  IF rc.hit
             THEN retrieval_layer(store, fs, body, qn, q_emb, Tail(doc_ids), use_cache,
                      all_hits \o rc.value,
                      trace \o read \o <<Ev("hit", "retrieval", did)>>)
             ELSE LET res == retriever_search(fs[did], did, body.top_k, q_emb)
                      searched == trace \o read \o <<Ev("search", "retrieval", did)>>
                  IN  IF res.raised
                      THEN [raised |-> TRUE, hits |-> all_hits, store |-> store,
                            trace |-> searched]
                      ELSE retrieval_layer(
                               IF use_cache THEN cache_set(store, rk, res.hits) ELSE store,
                               fs, body, qn, q_emb, Tail(doc_ids), use_cache,
                               all_hits \o res.hits,
                               IF use_cache
                               THEN searched \o <<Ev("set", "retrieval", did)>>
                               ELSE searched)

AskSources(sources) ==
    [i \in 1..Len(sources) |->
        [ doc_id |-> sources[i].doc_id, page |-> sources[i].page,
          chunk_id |-> sources[i].chunk_id, score |-> sources[i].score,
          text_excerpt |-> sources[i].text_snippet ]]

(* 7) ask.py 264-274 *)
store_final(s, a, store, body, qn, response_obj) ==
    LET pv == pipeline_version(s)
        with_ans == cache_set(store, ans_key(body.scope, pv, qn, body.top_k), response_obj)
        mk == sem_key(body.scope, pv, qn, body.top_k)
        m_emb == encode_texts(a.embedding_service, s, mask_entities(qn))
    IN  IF s.ENABLE_SEMANTIC_CACHE
        THEN [ store |-> cache_set(cache_set(with_ans, Suffix(mk, ":emb"), m_emb),
                                   Suffix(mk, ":resp"), response_obj),
               trace |-> <<Ev("set", "answer", "-"), Ev("encode", "store", "-"),
                           Ev("set", "semantic", "-")>> ]
        ELSE [store |-> with_ans, trace |-> <<Ev("set", "answer", "-")>>]

(* 6) with no guard: what the NER call gives is taken as it comes. *)
ner_entities_unguarded(a, ner_out) == ner_out

(* 6) ask.py 238-244: no entities when the NER service is absent or its    *)
(* extract_entities call raises.                                           *)
ner_entities(a, ner_out) ==
    IF a.ner_service = None \/ ner_out = <<"raise">> THEN <<>> ELSE ner_out

(* 3) to 7), after the two response caches missed *)
compute_answer(s, a, store, fs, body, qn, doc_ids, use_cache, qa_out, ner_out, trace) ==
    LET qe == qemb_layer(s, a, store, qn, use_cache)
        rl == retrieval_layer(qe.store, fs, body, qn, qe.q_emb, doc_ids, use_cache,
                              <<>>, trace \o qe.trace)
        all_hits == merge_hits(rl.hits, body.top_k)
        res == answer_with_sources(all_hits, qa_out)
        entities == ner_entities(a, ner_out)
        response_obj == [ answer |-> res.answer, confidence |-> res.confidence,
                          sources |-> AskSources(res.sources), entities |-> entities ]
        called == rl.trace \o <<Ev("qa", "-", "-")>>
                    \o (IF a.ner_service = None THEN <<>> ELSE <<Ev("ner", "-", "-")>>)
        fin == store_final(s, a, rl.store, body, qn, response_obj)
    IN  IF rl.raised THEN Out(500, NoResponse, "none", rl.store, rl.trace)
        ELSE IF qa_out.raises
        THEN Out(500, NoResponse, "none", rl.store, rl.trace \o <<Ev("qa", "-", "-")>>)
        ELSE IF use_cache
        THEN Out(200, response_obj, "none", fin.store, called \o fin.trace)
        ELSE Out(200, response_obj, "none", rl.store, called)

(* The layers in the order of the handler, with every layer read even     *)
(* after a hit in the semantic one.                                        *)
serve_reads_on(s, a, store, fs, body, qn, doc_ids, qa_out, ner_out) ==
    LET use_cache == a.cache # None /\ s.ENABLE_CACHE
        sem == IF use_cache /\ s.ENABLE_SEMANTIC_CACHE
               THEN semantic_layer(s, a, store, body, qn)
               ELSE [hit |-> FALSE, value |-> NoResponse, trace |-> <<>>]
        ans == IF use_cache THEN answer_layer(s, store, body, qn)
               ELSE [hit |-> FALSE, value |-> NoResponse, trace |-> <<>>]
    IN  IF sem.hit
        THEN Out(200, sem.value, "semantic", store,
                 sem.trace \o <<Ev("hit", "semantic", "-")>> \o ans.trace)
        ELSE IF ans.hit
        THEN Out(200, ans.value, "answer", store,
                 sem.trace \o ans.trace \o <<Ev("hit", "answer", "-")>>)
        ELSE compute_answer(s, a, store, fs, body, qn, doc_ids, use_cache,
                            qa_out, ner_out, sem.trace \o ans.trace)

(* ask.py 152-279: the layers, for a request that passed validation.  The  *)
(* handler catches nothing around its cache calls: with the store          *)
(* unreachable the first read raises, and building the AskResponse raises *)
(* on a payload of another shape (174, 186); both end the request with     *)
(* 500.                                                                    *)
serve(s, a, store, fs, body, qn, doc_ids, qa_out, ner_out) ==
    LET use_cache == a.cache # None /\ s.ENABLE_CACHE
        miss == [hit |-> FALSE, value |-> NoResponse, valid |-> TRUE, trace |-> <<>>]
        sem == IF use_cache /\ s.ENABLE_SEMANTIC_CACHE
               THEN semantic_layer(s, a, store, body, qn) ELSE miss
        ans == IF use_cache THEN answer_layer(s, store, body, qn) ELSE miss
    IN  IF use_cache /\ a.cache = "down"
        THEN Out(500, NoResponse, "none", store,
                 << Ev("get", IF s.ENABLE_SEMANTIC_CACHE THEN "semantic" ELSE "answer",
                       "-") >>)
        ELSE IF sem.hit
        THEN IF sem.valid
             THEN Out(200, sem.value, "semantic", store,
                      sem.trace \o <<Ev("hit", "semantic", "-")>>)
             ELSE Out(500, NoResponse, "none", store, sem.trace)
        ELSE IF ans.hit
        THEN IF ans.valid
             THEN Out(200, ans.value, "answer", store,
                      sem.trace \o ans.trace \o <<Ev("hit", "answer", "-")>>)
             ELSE Out(500, NoResponse, "none", store, sem.trace \o ans.trace)
        ELSE compute_answer(s, a, store, fs, body, qn, doc_ids, use_cache,
                            qa_out, ner_out, sem.trace \o ans.trace)

(* ask.py 107-150: validation, then the layers.                            *)
ask(s, a, store, fs, body, listing, qa_out, ner_out) ==
    LET question_raw == Strip(body.question)
        doc_ids == validate_doc_ids(fs,
                       IF body.scope = "docs" THEN body.doc_ids
                       ELSE list_indexed_docs(fs, listing))
    IN  IF question_raw = <<>> \/ Len(question_raw) > MAX_QUESTION_CHARS
        THEN Out(400, NoResponse, "none", store, <<>>)
        ELSE IF body.scope = "docs" /\ body.doc_ids = <<>>
        THEN Out(400, NoResponse, "none", store, <<>>)
        ELSE IF doc_ids = <<>> THEN Out(404, NoResponse, "none", store, <<>>)
        ELSE IF a.embedding_service = None \/ a.qa_service = None
        THEN Out(503, NoResponse, "none", store, <<>>)
        ELSE serve(s, a, store, fs, body, normalize_question(question_raw),
                   doc_ids, qa_out, ner_out)

(***************************************************************************)
(* The system: two documents, the requests of a small pool, the store.     *)
(***************************************************************************)
Docs == {"d1", "d2"}

DocText(d) ==
    IF d = "d1"
    THEN << [page |-> 1, text |-> <<"a", " ", "b", "c", "d">>] >>
    ELSE << [page |-> 1, text |-> <<"a", "b", "c">>] >>

NeverFails == [fail_at |-> 0, how |-> "raise"]

AllServices ==
    [embedding_service |-> "unit", qa_service |-> "qa", ner_service |-> "ner",
     cache |-> "redis"]

(* The artifacts of a document that went through chunk, embed and index.   *)
Built(s, d) ==
    LET t == [NoFiles EXCEPT !.text = Some(DocText(d))]
        c == chunk_document(s, t, d, FALSE).f
        e == embed_document(s, AllServices, c, d, FALSE, NeverFails).f
    IN  build_index(s, e, d, FALSE).f

Q2023 == <<"i", "n", " ", "2", "0", "2", "3">>
Q2024 == <<"i", "n", " ", "2", "0", "2", "4">>
QOther == <<"x">>

Body(q, scope, doc_ids, top_k) ==
    [question |-> q, scope |-> scope, doc_ids |-> doc_ids, top_k |-> top_k]

Bodies ==
    { Body(Q2023, "all", <<>>, 1), Body(Q2024, "all", <<>>, 1),
      Body(QOther, "all", <<>>, 1), Body(Q2023, "docs", <<"d1">>, 2),
      Body(Q2023, "docs", <<>>, 1) }

Listings == { <<"d1", "d2">>, <<"d2", "d1">> }

QaOutcomes ==
    { [raises |-> FALSE, answer |-> "A", score |-> Some(90)],
      [raises |-> FALSE, answer |-> "B", score |-> Some(10)],
      [raises |-> TRUE, answer |-> "", score |-> Absent] }

NerOutcomes == { <<"e">>, <<"raise">> }

NoHist ==
    [ served |-> <<>>, gen |-> [d \in Docs |-> 0], retr_gen |-> <<>>,
      wrote |-> <<>>, over |-> <<>>, tainted |-> {} ]

Idle == [op |-> "none"]

Range(f) == {f[x] : x \in DOMAIN f}

Put(f, k, v) == [x \in DOMAIN f \cup {k} |-> IF x = k THEN v ELSE f[x]]

(* The request as the claims identify it: question, scope and top_k.       *)
Same(body) == <<body.question, body.scope, body.top_k>>

Budget(asks, reconfigures, builds, expires) ==
    [asks |-> asks, reconfigures |-> reconfigures, builds |-> builds,
     expires |-> expires]

(* What the requests and the collaborators of a run are drawn from.        *)
Pool(bodies, qa, ner) ==
    [bodies |-> bodies, listings |-> Listings, qa |-> qa, ner |-> ner]

Deployments ==
    { <<DefaultSettings, AllServices>>,
      <<[DefaultSettings EXCEPT !.ENABLE_SEMANTIC_CACHE = FALSE], AllServices>>,
      <<DefaultSettings, [AllServices EXCEPT !.embedding_service = "tiny"]>>,
      <<DefaultSettings, [AllServices EXCEPT !.cache = None, !.ner_service = None]>> }

Init ==
    /\ \E dep \in Deployments : settings = dep[1] /\ app = dep[2]
    /\ kv = <<>>
    /\ files = [d \in Docs |-> Built(DefaultSettings, d)]
    /\ last = Idle
    /\ hist = NoHist
    /\ budget = Budget(MaxAsks, 0, 0, MaxExpires)
    /\ pin = Pool(Bodies, QaOutcomes, NerOutcomes)
    /\ pout = <<>>

(* One request to POST /ask, with the history the claims speak about.      *)
Ask ==
    /\ budget.asks > 0
    /\ \E body \in pin.bodies, listing \in pin.listings, qa_out \in pin.qa,
          ner_out \in pin.ner :
       \E r \in {ask(settings, app, kv, files, body, listing, qa_out, ner_out)} :
       \E qn \in {normalize_question(Strip(body.question))} :
       \E ak \in {ans_key(body.scope, pipeline_version(settings), qn, body.top_k)},
          mk \in {sem_key(body.scope, pipeline_version(settings), qn, body.top_k)},
          rk \in {[d \in Docs |-> retr_key(body.scope, index_version, d, qn, body.top_k)]} :
         LET events == Range(r.trace)
             written == {d \in Docs : Ev("set", "retrieval", d) \in events}
             bucket == [ emb |-> IF Suffix(mk, ":emb") \in DOMAIN kv
                                 THEN Some(kv[Suffix(mk, ":emb")]) ELSE Absent,
                         resp |-> IF Suffix(mk, ":resp") \in DOMAIN kv
                                  THEN Some(kv[Suffix(mk, ":resp")]) ELSE Absent ]
             served_key == IF r.layer = "semantic" THEN mk ELSE ak
             wrote1 == IF Ev("set", "answer", "-") \in events
                       THEN Put(hist.wrote, ak, settings) ELSE hist.wrote
             wrote2 == IF Ev("set", "semantic", "-") \in events
                       THEN Put(wrote1, mk, settings) ELSE wrote1
             resolved == Range(validate_doc_ids(files,
                             IF body.scope = "docs" THEN body.doc_ids
                             ELSE list_indexed_docs(files, listing)))
             over1 == IF Ev("set", "answer", "-") \in events
                      THEN Put(hist.over, ak, resolved) ELSE hist.over
             over2 == IF Ev("set", "semantic", "-") \in events
                      THEN Put(over1, mk, resolved) ELSE over1
         IN  /\ kv' = r.store
             /\ last' = [ op |-> "ask", body |-> body, code |-> r.code,
                          response |-> r.response, layer |-> r.layer,
                          trace |-> r.trace,
                          repeat |-> Same(body) \in DOMAIN hist.served,
                          first |-> IF Same(body) \in DOMAIN hist.served
                                    THEN hist.served[Same(body)] ELSE NoResponse,
                          bucket |-> bucket,
                          written_under |-> IF r.layer = "none" THEN settings
                                            ELSE hist.wrote[served_key],
                          resolved |-> resolved,
                          resolved_list |-> validate_doc_ids(files,
                              IF body.scope = "docs" THEN body.doc_ids
                              ELSE list_indexed_docs(files, listing)),
                          computed_over |-> IF r.layer = "none" THEN resolved
                                            ELSE hist.over[served_key],
                          stale |-> { d \in Docs :
                                        /\ Ev("hit", "retrieval", d) \in events
                                        /\ hist.retr_gen[rk[d]] < hist.gen[d] } ]
             /\ hist' = [ hist EXCEPT
                          !.served = IF r.code = 200 /\ Same(body) \notin DOMAIN @
                                     THEN Put(@, Same(body), r.response) ELSE @,
                          !.wrote = wrote2,
                          !.over = over2,
                          !.retr_gen = [k \in DOMAIN @ \cup {rk[d] : d \in written} |->
                                          IF k \in {rk[d] : d \in written}
                                          THEN hist.gen[k[4]] ELSE @[k]] ]
    /\ budget' = [budget EXCEPT !.asks = @ - 1]
    /\ UNCHANGED <<settings, app, files, pin, pout>>

(* The process restarts with one setting changed; the store is kept.       *)
Alternative ==
    [ QA_MODEL_NAME |-> "qa2", EMBEDDING_MODEL_NAME |-> "emb2",
      NER_MODEL_NAME |-> "ner2", CHUNK_SIZE_CHARS |-> 2,
      CHUNK_OVERLAP_CHARS |-> 1, CHUNK_SEPARATORS |-> << <<>> >> ]

Reconfigure ==
    /\ budget.reconfigures > 0
    /\ \E field \in DOMAIN Alternative :
         /\ settings[field] # Alternative[field]
         /\ settings' = [settings EXCEPT ![field] = Alternative[field]]
         /\ last' = [op |-> "reconfigure", field |-> field, before |-> settings,
                     after |-> [settings EXCEPT ![field] = Alternative[field]]]
    /\ hist' = [hist EXCEPT !.served = <<>>]
    /\ budget' = [budget EXCEPT !.reconfigures = @ - 1]
    /\ UNCHANGED <<app, kv, files, pin, pout>>

(* The TTL of one entry runs out.                                          *)
Expire ==
    /\ budget.expires > 0
    /\ \E k \in DOMAIN kv :
         /\ kv' = [x \in DOMAIN kv \ {k} |-> kv[x]]
         /\ last' = [op |-> "expire", key |-> k]
    /\ hist' = [hist EXCEPT !.served = <<>>]
    /\ budget' = [budget EXCEPT !.expires = @ - 1]
    /\ UNCHANGED <<settings, app, files, pin, pout>>

(* on_touched: the call answered already_* over files that a failed build  *)
(* wrote and no successful build has rewritten since.                      *)
Built_(op, d, force, before, r, on_touched) ==
    [ op |-> op, doc |-> d, force |-> force, code |-> r.code, status |-> r.status,
      before |-> before, after |-> r.f, on_touched |-> on_touched ]

ChunkDoc ==
    /\ budget.builds > 0
    /\ \E d \in Docs, force \in BOOLEAN :
         \E r \in {chunk_document(settings, files[d], d, force)} :
             /\ files' = [files EXCEPT ![d] = r.f]
             /\ last' = Built_("chunk", d, force, files[d], r, FALSE)
    /\ budget' = [budget EXCEPT !.builds = @ - 1]
    /\ UNCHANGED <<settings, app, kv, hist, pin, pout>>

(* What the embedding collaborator does during one build. *)
Encs ==
    { NeverFails, [fail_at |-> 1, how |-> "bad_shape"], [fail_at |-> 2, how |-> "raise"] }

EmbedDoc ==
    /\ budget.builds > 0
    /\ \E d \in Docs, force \in BOOLEAN, enc \in Encs :
         \E r \in {embed_document(settings, app, files[d], d, force, enc)} :
             /\ files' = [files EXCEPT ![d] = r.f]
             /\ last' = Built_("embed", d, force, files[d], r,
                               r.status = "already_embedded" /\ d \in hist.tainted)
             /\ hist' = [ hist EXCEPT !.tainted =
                            IF r.code >= 400 /\ r.f # files[d] THEN @ \cup {d}
                            ELSE IF r.status = "embedded" THEN @ \ {d} ELSE @ ]
    /\ budget' = [budget EXCEPT !.builds = @ - 1]
    /\ UNCHANGED <<settings, app, kv, pin, pout>>

IndexDoc ==
    /\ budget.builds > 0
    /\ \E d \in Docs, force \in BOOLEAN :
         \E r \in {build_index(settings, files[d], d, force)} :
             /\ files' = [files EXCEPT ![d] = r.f]
             /\ last' = Built_("index", d, force, files[d], r, FALSE)
             /\ hist' = [ hist EXCEPT !.gen[d] =
                            IF r.status = "indexed" THEN @ + 1 ELSE @ ]
    /\ budget' = [budget EXCEPT !.builds = @ - 1]
    /\ UNCHANGED <<settings, app, kv, pin, pout>>

Next == Ask \/ Expire

Spec == Init /\ [][Next]_vars

(***************************************************************************)
(* What a request did, read off its trace.                                 *)
(***************************************************************************)
CacheOn == app.cache # None /\ settings.ENABLE_CACHE

Asked == last.op = "ask"

(* The request passed validation and found its services.                   *)
Passed == Asked /\ last.code \notin {400, 404, 503}

Did(op) == {i \in 1..Len(last.trace) : last.trace[i][1] = op}

(* C1 (as amended): with the cache attached and enabled, a request with    *)
(* the question, scope and top_k of a request answered before, with no     *)
(* expiry and no configuration change since, is answered with the response *)
(* first served, without any QA, index search or NER call and without      *)
(* encoding the question; the embedding collaborator is called at most     *)
(* once, on the masked question of the semantic check, and not at all when *)
(* the semantic cache is disabled.                                         *)
C1_RepeatServedFromCache ==
    (Passed /\ last.repeat /\ CacheOn) =>
        /\ last.code = 200
        /\ last.response = last.first
        /\ Did("qa") = {} /\ Did("search") = {} /\ Did("ner") = {}
        /\ \A i \in Did("encode") : last.trace[i] = Ev("encode", "semantic", "-")
        /\ Cardinality(Did("encode")) <= 1
        /\ ~settings.ENABLE_SEMANTIC_CACHE => Did("encode") = {}

(* C1 witness: a repeated request served by the semantic layer, which      *)
(* encoded the masked question.                                            *)
C1_Witness ==
    /\ Passed /\ last.repeat /\ CacheOn /\ last.code = 200
    /\ last.layer = "semantic"
    /\ Did("encode") # {}

(* C1 as stated: the repeated request gets the same response and neither   *)
(* the QA nor the embedding collaborator is called.                        *)
C1_AsStated ==
    (Passed /\ last.repeat /\ CacheOn) =>
        /\ last.response = last.first
        /\ Did("qa") = {}
        /\ Did("encode") = {}

(***************************************************************************)
(* The layer an event belongs to, in the order of the handler: 1 semantic, *)
(* 2 exact answer, 3 query embedding, 4 per-document retrieval, 5 QA,      *)
(* 6 NER, 7 the final stores.                                              *)
(***************************************************************************)
Stage(e) ==
    CASE e[1] = "qa" -> 5
      [] e[1] = "ner" -> 6
      [] e[1] = "set" /\ e[2] \in {"answer", "semantic"} -> 7
      [] e[2] = "store" -> 7
      [] e[2] = "semantic" -> 1
      [] e[2] = "answer" -> 2
      [] e[2] = "qemb" -> 3
      [] e[2] = "retrieval" -> 4

At(e) == {i \in 1..Len(last.trace) : last.trace[i] = e}

(* C3: a request that reaches the layers consults them in the order        *)
(* semantic, exact answer, query embedding, per-document retrieval; a hit  *)
(* in the semantic or the exact-answer layer is the last thing the request *)
(* does (nothing later is read, searched or called, nothing is stored); a  *)
(* semantic miss (bucket absent, incomplete or below the threshold) is     *)
(* followed by the read of the exact-answer layer, and an exact-answer     *)
(* miss by the read of the query-embedding layer and then of the retrieval *)
(* layer of each document before its search.                               *)
C3_LayersInOrder ==
    (Passed /\ CacheOn) =>
        LET t == last.trace
            n == Len(t)
        IN  /\ \A i, j \in 1..n : i < j => Stage(t[i]) <= Stage(t[j])
            /\ settings.ENABLE_SEMANTIC_CACHE => t[1] = Ev("get", "semantic", "-")
            /\ \A i \in At(Ev("hit", "semantic", "-")) \cup At(Ev("hit", "answer", "-")) :
                   i = n /\ last.code = 200
            /\ (last.layer = "semantic") = (At(Ev("hit", "semantic", "-")) # {})
            /\ (last.layer = "answer") = (At(Ev("hit", "answer", "-")) # {})
            /\ last.layer # "semantic" =>
                   \E i \in At(Ev("get", "answer", "-")) :
                       \A j \in 1..(i - 1) : Stage(t[j]) = 1
            /\ last.layer = "none" =>
                   /\ \E i \in At(Ev("get", "answer", "-")) :
                          t[i + 1] = Ev("get", "qemb", "-")
                   /\ \A i \in Did("search") :
                          t[i - 1] = Ev("get", "retrieval", t[i][3])
                   /\ \E i \in 1..n : t[i][1] = "get" /\ t[i][2] = "retrieval"

(* C3 witness: the bucket was complete but below the threshold, and the    *)
(* request was then served by the exact-answer layer.                      *)
C3_Witness ==
    /\ Passed /\ CacheOn
    /\ last.layer = "answer"
    /\ At(Ev("encode", "semantic", "-")) # {}

(***************************************************************************)
(* Two questions that differ in one token.                                 *)
(***************************************************************************)
T2023 == <<"2", "0", "2", "3">>
T1999 == <<"1", "9", "9", "9">>
T1850 == <<"1", "8", "5", "0">>
T7 == <<"7">>
T42 == <<"4", "2">>
T3p5 == <<"3", ".", "5">>
TUsd5 == <<"$", "5">>
TUsd1000 == <<"$", "1", ",", "0", "0", "0">>
TPct5 == <<"5", "%">>
TPct12p5 == <<"1", "2", ".", "5", "%">>
TMailA == <<"a", "@", "b", ".", "c">>
TMailX == <<"x", "@", "n", ".", "a", "b">>

Tokens ==
    { T2023, T1999, T1850, T7, T42, T3p5, TUsd5, TUsd1000, TPct5, TPct12p5,
      TMailA, TMailX }

Question(tok) == <<"i", "n", " ">> \o tok

AllDigits(t) == t # <<>> /\ \A i \in 1..Len(t) : IsDigit(t[i])

(* The kinds of maskable token, as the claim names them.                   *)
IsFourDigitYear(t) == Len(t) = 4 /\ AllDigits(t)

IsBareNumber(t) ==
    \/ AllDigits(t)
    \/ \E i \in 2..(Len(t) - 1) :
           t[i] = "." /\ AllDigits(SubSeq(t, 1, i - 1)) /\ AllDigits(SubSeq(t, i + 1, Len(t)))

IsMoney(t) == Len(t) > 1 /\ t[1] = "$"

IsPercent(t) == Len(t) > 1 /\ t[Len(t)] = "%" /\ IsBareNumber(SubSeq(t, 1, Len(t) - 1))

IsEmail(t) == \E i \in 2..(Len(t) - 1) : t[i] = "@"

Kinds(t) ==
    {k \in {"year", "number", "amount", "percent", "email"} :
        \/ k = "year" /\ IsFourDigitYear(t)
        \/ k = "number" /\ IsBareNumber(t)
        \/ k = "amount" /\ IsMoney(t)
        \/ k = "percent" /\ IsPercent(t)
        \/ k = "email" /\ IsEmail(t)}

(* The kinds the patterns tell apart: a year is 1900 to 2099, a bare       *)
(* number does not begin with such a year.                                 *)
BeginsWithYear(t) ==
    /\ Len(t) >= 4
    /\ <<t[1], t[2]>> \in {<<"1", "9">>, <<"2", "0">>}
    /\ IsDigit(t[3]) /\ IsDigit(t[4])
    /\ (Len(t) = 4 \/ t[5] = ".")

MaskClass(t) ==
    CASE IsFourDigitYear(t) /\ BeginsWithYear(t) -> "year"
      [] IsBareNumber(t) /\ ~BeginsWithYear(t) -> "number"
      [] IsMoney(t) -> "amount"
      [] IsPercent(t) -> "percent"
      [] IsEmail(t) -> "email"
      [] OTHER -> "none"

Pairs == {p \in Tokens \X Tokens : p[1] # p[2] /\ Kinds(p[1]) \cap Kinds(p[2]) # {}}

InitSem ==
    /\ settings = DefaultSettings
    /\ app \in {AllServices, [AllServices EXCEPT !.embedding_service = "tiny"]}
    /\ kv = <<>>
    /\ files = [d \in Docs |-> Built(DefaultSettings, d)]
    /\ last = Idle
    /\ hist = NoHist
    /\ budget = Budget(MaxAsks, 0, 0, 0)
    /\ \E p \in Pairs :
         pin = [ bodies |-> {Body(Question(p[1]), "all", <<>>, 1),
                             Body(Question(p[2]), "all", <<>>, 1)},
                 listings |-> Listings, qa |-> QaOutcomes, ner |-> {<<"e">>},
                 first |-> p[1], second |-> p[2] ]
    /\ pout = <<>>

SpecSem == InitSem /\ [][Ask]_vars

SemKeyOf(tok) ==
    sem_key("all", pipeline_version(settings), normalize_question(Question(tok)), 1)

(* The request is the second question, asked for the first time after the  *)
(* first question was answered and stored, and finds the bucket complete.  *)
SecondAfterFirst ==
    /\ Passed /\ CacheOn /\ settings.ENABLE_SEMANTIC_CACHE
    /\ last.body.question = Question(pin.second)
    /\ ~last.repeat
    /\ Same(Body(Question(pin.first), "all", <<>>, 1)) \in DOMAIN hist.served
    /\ Exists(last.bucket.emb) /\ Exists(last.bucket.resp)

MaskedEmbedding ==
    encode_texts(app.embedding_service, settings,
                 mask_entities(normalize_question(Question(pin.second))))

ServedStored ==
    /\ last.code = 200
    /\ last.response = Content(last.bucket.resp)
    /\ last.response = hist.served[Same(Body(Question(pin.first), "all", <<>>, 1))]
    /\ Did("search") = {} /\ Did("qa") = {} /\ Did("ner") = {}

C2_CosineAsStated ==
    (/\ MaskClass(pin.first) = MaskClass(pin.second)
     /\ SecondAfterFirst
     /\ CosineAtLeastThreshold(MaskedEmbedding, Content(last.bucket.emb)))
    => ServedStored

(***************************************************************************)
(* Requests interleaved with forced and unforced index builds.             *)
(***************************************************************************)
InitIndex ==
    /\ settings = DefaultSettings
    /\ app = AllServices
    /\ kv = <<>>
    /\ files = [d \in Docs |-> Built(DefaultSettings, d)]
    /\ last = Idle
    /\ hist = NoHist
    /\ budget = Budget(MaxAsks, 0, MaxBuilds, 0)
    /\ pin = Pool({Body(Q2023, "all", <<>>, 1), Body(Q2023, "docs", <<"d1">>, 2)},
                  QaOutcomes, NerOutcomes)
    /\ pout = <<>>

SpecIndex == InitIndex /\ [][Ask \/ IndexDoc]_vars

(* C4: a request never takes from the retrieval cache, for a document, a   *)
(* hit list that was written before the latest build of that document's    *)
(* index.                                                                  *)
C4_NoStaleRetrievalHits == (Asked /\ last.code = 200) => last.stale = {}

(***************************************************************************)
(* Requests interleaved with restarts under a changed setting.             *)
(***************************************************************************)
InitConfig ==
    /\ settings = DefaultSettings
    /\ app = AllServices
    /\ kv = <<>>
    /\ files = [d \in Docs |-> Built(DefaultSettings, d)]
    /\ last = Idle
    /\ hist = NoHist
    /\ budget = Budget(MaxAsks, MaxReconfigures, 0, 0)
    /\ pin = Pool({Body(Q2023, "all", <<>>, 1), Body(Q2024, "all", <<>>, 1)},
                  QaOutcomes, NerOutcomes)
    /\ pout = <<>>

SpecConfig == InitConfig /\ [][Ask \/ Reconfigure]_vars

(* C5: a change of a model name or of a chunking parameter (size, overlap, *)
(* separators) changes the pipeline version, and a response served from    *)
(* the exact-answer or the semantic cache was stored under the model names *)
(* and chunking parameters now in force.                                   *)
C5_ConfigChangeInvalidates ==
    /\ last.op = "reconfigure" =>
           pipeline_version(last.before) # pipeline_version(last.after)
    /\ (Asked /\ last.layer \in {"semantic", "answer"}) =>
           \A field \in DOMAIN Alternative :
               last.written_under[field] = settings[field]

(* The same for the five settings other than the separators.               *)
C5_ExceptSeparators ==
    /\ (last.op = "reconfigure" /\ last.field # "CHUNK_SEPARATORS") =>
           pipeline_version(last.before) # pipeline_version(last.after)
    /\ (Asked /\ last.layer \in {"semantic", "answer"}) =>
           \A field \in DOMAIN Alternative \ {"CHUNK_SEPARATORS"} :
               last.written_under[field] = settings[field]

(***************************************************************************)
(* The build endpoints alone: one document built, one only extracted.      *)
(***************************************************************************)
InitBuild ==
    /\ settings \in { DefaultSettings,
                      [DefaultSettings EXCEPT !.EMBEDDING_BATCH_SIZE = 1,
                                              !.MAX_CHUNKS_TO_EMBED = 1,
                                              !.MAX_CHUNKS_PER_DOC = 1] }
    /\ app = AllServices
    /\ kv = <<>>
    /\ files = [d \in Docs |-> IF d = "d1" THEN Built(DefaultSettings, d)
                               ELSE [NoFiles EXCEPT !.text = Some(DocText(d))]]
    /\ last = Idle
    /\ hist = NoHist
    /\ budget = Budget(0, 0, MaxBuilds, 0)
    /\ pin = Pool({}, {}, {})
    /\ pout = <<>>

SpecBuild == InitBuild /\ [][ChunkDoc \/ EmbedDoc \/ IndexDoc]_vars

(* C7: whenever a document has embeddings_info.json, its metadata file has *)
(* as many lines as the manifest's row_count and as the matrix has rows,   *)
(* and line i carries row i (from 0) and the chunk_id of the i-th chunk.   *)
C7_MetaMatchesManifest ==
    \A d \in Docs :
        Exists(files[d].info) =>
            /\ Exists(files[d].meta) /\ Exists(files[d].npy) /\ Exists(files[d].chunks)
            /\ Len(Content(files[d].meta)) = Content(files[d].info).row_count
            /\ Len(Content(files[d].npy)) = Content(files[d].info).row_count
            /\ \A i \in 1..Len(Content(files[d].meta)) :
                   /\ Content(files[d].meta)[i].row = i - 1
                   /\ i <= Len(Content(files[d].chunks))
                   /\ Content(files[d].meta)[i].chunk_id
                        = Content(files[d].chunks)[i].chunk_id

Building == last.op \in {"chunk", "embed", "index"}

(* C9: a build that fails leaves the document's files as they were, and no *)
(* unforced call answers already_* over files that a failed build wrote.   *)
C9_FailedBuildLeavesFiles ==
    Building =>
        /\ last.code >= 400 => last.after = last.before
        /\ ~last.on_touched

(* The first half of C9 for the chunk and index builds.                    *)
C9_ChunkAndIndexLeaveFiles ==
    (Building /\ last.op # "embed" /\ last.code >= 400) => last.after = last.before

(* The second half of C9 alone.                                            *)
C9_NoAlreadyOverTouched == Building => ~last.on_touched

(***************************************************************************)
(* The pure functions, applied to inputs drawn from small sets: pin is the *)
(* input, pout the sequence of results (empty before the call).            *)
(***************************************************************************)
Quiet ==
    /\ settings = DefaultSettings
    /\ app = AllServices
    /\ kv = <<>>
    /\ files = [d \in Docs |-> NoFiles]
    /\ last = Idle
    /\ hist = NoHist
    /\ budget = Budget(0, 0, 0, 0)

Rest == <<settings, app, kv, files, last, hist, budget, pin>>

SeqsUpTo(S, n) == UNION {[1..k -> S] : k \in 0..n}

(* ---- the no-answer policy ---- *)
Hit(doc_id, chunk_id, score) ==
    [ doc_id |-> doc_id, chunk_id |-> chunk_id, score |-> score, page |-> Some(1),
      chunk_index |-> Some(0), text_snippet |-> <<"a">> ]

Scores == {Absent, Some(0), Some(QA_MIN_SCORE - 1), Some(QA_MIN_SCORE),
           Some(QA_MIN_SCORE + 1), Some(100)}

InitPolicy ==
    /\ Quiet
    /\ pin \in [ question : {<<"x">>, <<" ">>},
                 answer : {"", " ", "A"},
                 score : Scores,
                 per_doc_hits : { <<>>, << <<Hit("d1", "c1", 2)>> >>,
                                  << <<Hit("d1", "c1", 2)>>, <<Hit("d2", "c2", 3)>> >> },
                 top_k : {1, 2} ]
    /\ pout = <<>>

AskOverDocs ==
    /\ pout = <<>>
    /\ pout' = << ask_over_docs(pin.question, pin.per_doc_hits, pin.top_k,
                                [answer |-> pin.answer, score |-> pin.score]) >>
    /\ UNCHANGED Rest

SpecPolicy == InitPolicy /\ [][AskOverDocs]_vars

(* C10: when the collaborator's answer is empty, or its score is present   *)
(* and below QA_MIN_SCORE, the assembled answer is the refusal string;     *)
(* otherwise (a non-empty answer with no score included) it is the         *)
(* collaborator's answer; in both cases the confidence is the              *)
(* collaborator's score and the sources are the retrieved sources.         *)
C10_NoAnswerPolicy ==
    (pout # <<>> /\ normalize_question(pin.question) # <<>>) =>
        /\ pout[1].answer =
               IF pin.answer = "" \/ (pin.score # Absent /\ pin.score[1] < QA_MIN_SCORE)
               THEN "I don't know based on the provided documents."
               ELSE pin.answer
        /\ pout[1].confidence = pin.score
        /\ pout[1].sources = retrieve_multi_doc(pin.per_doc_hits, pin.top_k)

(* C10 witness: an empty answer with a high score is refused, and the      *)
(* sources are kept.                                                       *)
C10_Witness ==
    /\ pout # <<>> /\ pin.question = <<"x">>
    /\ pin.answer = "" /\ pin.score = Some(100)
    /\ pout[1].answer = REFUSAL
    /\ pout[1].sources # <<>>

(* ---- the merge of the per-document hit lists ---- *)
MaxHitsPerDoc == 2

HitScores == {1, 2, 3}

(* n hits of one document, their scores cycling through HitScores.         *)
ManyHits(doc_id, n) == [i \in 1..n |-> Hit(doc_id, "c", (i % 3) + 1)]

HitLists(doc_id) ==
    {[i \in 1..Len(sc) |-> Hit(doc_id, "c", sc[i])] : sc \in SeqsUpTo(HitScores, MaxHitsPerDoc)}

PerDocHits ==
    {<<>>} \cup {<<l>> : l \in HitLists("d1")}
           \cup {<<l1, l2>> : l1 \in HitLists("d1"), l2 \in HitLists("d2")}

InitMerge ==
    /\ Quiet
    /\ \/ pin \in [per_doc_hits : PerDocHits, top_k : {-1, 0, 1, 2, 3, 5}]
       \/ pin \in [ per_doc_hits : {<<ManyHits("d1", MAX_TOP_K), ManyHits("d2", 2)>>},
                    top_k : {MAX_TOP_K - 1, MAX_TOP_K, MAX_TOP_K + 1, MAX_TOP_K + 5} ]
    /\ pout = <<>>

(* ask.py 231-233 *)
MergeInAsk ==
    /\ pout = <<>>
    /\ pout' = <<merge_hits(Concat(pin.per_doc_hits), pin.top_k)>>
    /\ UNCHANGED Rest

(* the same in retrieve_multi_doc *)
MergeInPipeline ==
    /\ pout = <<>>
    /\ pout' = <<retrieve_multi_doc(pin.per_doc_hits, pin.top_k)>>
    /\ UNCHANGED Rest

SpecMerge == InitMerge /\ [][MergeInAsk \/ MergeInPipeline]_vars

TotalHits == Len(Concat(pin.per_doc_hits))

Descending(hits) == \A i, j \in 1..Len(hits) : i < j => hits[i].score >= hits[j].score

(* C6 (as amended): the merged list is sorted by descending score and has  *)
(* length min(max(1, min(top_k, MAX_TOP_K)), total number of hits).        *)
C6_MergedSortedAndCut ==
    pout # <<>> =>
        /\ Descending(pout[1])
        /\ Len(pout[1]) = Min(Max(1, Min(pin.top_k, MAX_TOP_K)), TotalHits)

(* C6 witness: more than MAX_TOP_K hits and a larger top_k: MAX_TOP_K      *)
(* sources come out.                                                       *)
C6_Witness ==
    /\ pout # <<>>
    /\ TotalHits > MAX_TOP_K /\ pin.top_k > MAX_TOP_K
    /\ Len(pout[1]) = MAX_TOP_K

(* C6 as stated: sorted, of length min(top_k, total number of hits).       *)
C6_AsStated ==
    pout # <<>> =>
        /\ Descending(pout[1])
        /\ Len(pout[1]) = Min(pin.top_k, TotalHits)

(* ---- the row -> chunk_id mapping of the retriever ---- *)
MaxMetaLines == 3

MetaRows == {0, 1, 2}
MetaIds == {"a", "b"}

InitRows ==
    /\ Quiet
    /\ pin \in [ lines : SeqsUpTo([row : MetaRows, chunk_id : MetaIds], MaxMetaLines),
                 row : {-1, 0, 1, 2, 3} ]
    /\ pout = <<>>

(* The loop of RetrieverService.search over one row the index returned.    *)
ResolveRow ==
    /\ pout = <<>>
    /\ pout' = << resolve_rows("d1", << [row |-> pin.row, score |-> 1] >>,
                               _load_row_to_chunk_id(pin.lines), <<>>) >>
    /\ UNCHANGED Rest

SpecRows == InitRows /\ [][ResolveRow]_vars

(* C8: the row returned by the search is skipped, or resolved to the       *)
(* chunk_id of a metadata line that declares that row.                     *)
C8_RowResolvesToItsLine ==
    pout # <<>> =>
        \/ pout[1] = <<>>
        \/ \E i \in 1..Len(pin.lines) :
               /\ pin.lines[i].row = pin.row
               /\ pin.lines[i].chunk_id = pout[1][1].chunk_id

(* The same for metadata whose lines carry rows 0, 1, 2, ... in order, as  *)
(* the embed step writes them.                                             *)
C8_InOrderMetaResolves ==
    (pout # <<>> /\ \A i \in 1..Len(pin.lines) : pin.lines[i].row = i - 1) =>
        \/ pout[1] = <<>> /\ (pin.row < 0 \/ pin.row >= Len(pin.lines))
        \/ /\ pout[1] # <<>>
           /\ pin.row + 1 \in 1..Len(pin.lines)
           /\ pin.lines[pin.row + 1].chunk_id = pout[1][1].chunk_id

(***************************************************************************)
(* Requests against a store that fails: unreachable, or holding payloads   *)
(* that do not decode or decode to another shape.                          *)
(***************************************************************************)
QaAnswers == {q \in QaOutcomes : ~q.raises}

InitCache ==
    /\ settings \in {DefaultSettings, [DefaultSettings EXCEPT !.ENABLE_SEMANTIC_CACHE = FALSE]}
    /\ app \in {AllServices, [AllServices EXCEPT !.cache = "down"]}
    /\ kv = <<>>
    /\ files = [d \in Docs |-> Built(DefaultSettings, d)]
    /\ last = Idle
    /\ hist = NoHist
    /\ budget = Budget(MaxAsks, 0, 0, 0)
    /\ pin = Pool({Body(Q2023, "all", <<>>, 1), Body(Q2024, "all", <<>>, 1)},
                  QaAnswers, {<<"e">>})
    /\ pout = <<>>

IsPayloadKey(k) == k[1] \in {"sem", "ans", "qemb", "retr"}

IsResponseKey(k) == k[1] = "ans" \/ (k[1] = "sem" /\ k[Len(k)] = ":resp")

(* A stored payload is damaged: its bytes no longer decode, or (for a      *)
(* cached response) they decode to JSON that is not an AskResponse.        *)
Corrupt ==
    /\ \E k \in {x \in DOMAIN kv : IsPayloadKey(x)} :
       \E mark \in {Undecodable(k)} \cup (IF IsResponseKey(k) THEN {Misshapen(k)} ELSE {}) :
         /\ Undecodable(k) \notin DOMAIN kv /\ Misshapen(k) \notin DOMAIN kv
         /\ kv' = Put(kv, mark, TRUE)
         /\ last' = [op |-> "corrupt", key |-> k, how |-> mark[1]]
    /\ UNCHANGED <<settings, app, files, hist, budget, pin, pout>>

SpecCache == InitCache /\ [][Ask \/ Corrupt]_vars

Marked(how) == {k \in DOMAIN kv : k[1] = how}

(* C11: whatever the condition of the store (unreachable, payloads that do *)
(* not decode or have another shape), a request that passes validation,    *)
(* with the QA collaborator answering, completes with 200.                 *)
C11_CacheFailureIsMiss == Passed => last.code = 200

(* The part of C11 about payloads that do not decode, with the store       *)
(* reachable: they are read as misses.                                     *)
C11_UndecodableIsMiss ==
    (Passed /\ app.cache = "redis" /\ Marked("misshapen") = {}) => last.code = 200

(***************************************************************************)
(* Requests with the NER service present, absent or failing.               *)
(***************************************************************************)
InitNer ==
    /\ settings = DefaultSettings
    /\ app \in { AllServices, [AllServices EXCEPT !.ner_service = None],
                 [AllServices EXCEPT !.cache = None] }
    /\ kv = <<>>
    /\ files = [d \in Docs |-> Built(DefaultSettings, d)]
    /\ last = Idle
    /\ hist = NoHist
    /\ budget = Budget(MaxAsks, 0, 0, 0)
    /\ pin = Pool({Body(Q2023, "all", <<>>, 1), Body(Q2023, "docs", <<"d1">>, 2)},
                  QaOutcomes, NerOutcomes)
    /\ pout = <<>>

SpecNer == InitNer /\ [][Ask]_vars

WithNer(ner) == [app EXCEPT !.ner_service = ner]

(* The request computed its response (no response cache served it).        *)
Computed(r) == r.code = 200 /\ r.layer = "none"

(* C12: in every state, a request made with the NER service absent, or     *)
(* with its call raising, ends with the status, answer, confidence and     *)
(* sources of the same request made with NER working, and a response it    *)
(* computes carries no entities; and the request just made did so.         *)
C12_NerFailSoft ==
    /\ \A body \in pin.bodies, listing \in pin.listings, qa_out \in pin.qa :
         LET ok == ask(settings, WithNer("ner"), kv, files, body, listing, qa_out, <<"e">>)
             soft == { ask(settings, WithNer(None), kv, files, body, listing, qa_out, <<"e">>),
                       ask(settings, WithNer("ner"), kv, files, body, listing, qa_out,
                           <<"raise">>) }
         IN  \A r \in soft :
                 /\ r.code = ok.code
                 /\ r.response.answer = ok.response.answer
                 /\ r.response.confidence = ok.response.confidence
                 /\ r.response.sources = ok.response.sources
                 /\ Computed(r) => r.response.entities = <<>>
    /\ (Asked /\ Computed(last) /\ app.ner_service = None) => last.response.entities = <<>>

(* C12 witness: a request whose NER call was made and raised is answered   *)
(* 200 with sources and no entities.                                       *)
C12_Witness ==
    /\ Asked /\ Computed(last)
    /\ Did("ner") # {}
    /\ last.response.entities = <<>>
    /\ last.response.sources # <<>>

(***************************************************************************)
(* Start-up (main.py lifespan) and the requests that need a model.         *)
(***************************************************************************)
(* lifespan: each model is loaded once; a load that raises leaves the      *)
(* service None.  Neither a cache nor an NER service is attached.          *)
lifespan(emb_loads, qa_loads) ==
    [ embedding_service |-> IF emb_loads THEN "unit" ELSE None,
      qa_service |-> IF qa_loads THEN "qa" ELSE None,
      ner_service |-> None, cache |-> None ]

(* POST /documents/{doc_id}/search (vectorstore.py 60-88): [code, hits,    *)
(* encoded], encoded telling whether the query was encoded.                *)
search_doc(s, a, f, doc_id, query, top_k) ==
    IF a.embedding_service = None
    THEN [code |-> 500, hits |-> <<>>, encoded |-> FALSE]
    ELSE IF Strip(query) = <<>>
    THEN [code |-> 200, hits |-> <<>>, encoded |-> FALSE]
    ELSE LET r == retriever_search(f, doc_id, top_k,
                                   encode_texts(a.embedding_service, s, query))
         IN  IF r.raised THEN [code |-> 404, hits |-> <<>>, encoded |-> FALSE]
             ELSE [code |-> 200, hits |-> r.hits, encoded |-> TRUE]

InitStartup ==
    /\ settings = DefaultSettings
    /\ \E emb_loads, qa_loads \in BOOLEAN : app = lifespan(emb_loads, qa_loads)
    /\ kv = <<>>
    /\ files = [d \in Docs |-> IF d = "d1" THEN Built(DefaultSettings, d)
                               ELSE chunk_document(DefaultSettings,
                                        [NoFiles EXCEPT !.text = Some(DocText(d))],
                                        d, FALSE).f]
    /\ last = Idle
    /\ hist = NoHist
    /\ budget = Budget(MaxAsks, 0, MaxBuilds, 0)
    /\ pin = Pool({Body(Q2023, "all", <<>>, 1), Body(<<" ">>, "all", <<>>, 1)},
                  QaOutcomes, NerOutcomes)
    /\ pout = <<>>

SearchDoc ==
    /\ \E d \in Docs, query \in {Q2023, <<" ">>}, top_k \in {1, 2} :
       \E r \in {search_doc(settings, app, files[d], d, query, top_k)} :
           last' = [ op |-> "search", doc |-> d, query |-> query, top_k |-> top_k,
                     code |-> r.code, hits |-> r.hits, encoded |-> r.encoded ]
    /\ UNCHANGED <<settings, app, kv, files, hist, budget, pin, pout>>

SpecStartup == InitStartup /\ [][Ask \/ EmbedDoc \/ SearchDoc]_vars

(* The status of an unexpected internal fault (main.py 65-69).             *)
UNEXPECTED == 500

(* The request reached the point where the handler looks for its models.   *)
NeedsModel ==
    \/ Asked /\ last.code \notin {400, 404}
    \/ last.op = "embed" /\ last.status # "already_embedded"
    \/ last.op = "search"

ModelAbsent ==
    \/ app.embedding_service = None
    \/ Asked /\ app.qa_service = None

(* C13: with a model that failed to load, every request that needs it      *)
(* fails with a status of its own, which is not the one of an unexpected   *)
(* fault, calls no collaborator and changes nothing; the service stays     *)
(* absent.                                                                 *)
C13_AbsentServiceIsUnavailable ==
    (NeedsModel /\ ModelAbsent) =>
        /\ last.code >= 400 /\ last.code # UNEXPECTED
        /\ Asked => last.trace = <<>>
        /\ last.op = "embed" => last.after = last.before
        /\ last.op = "search" => ~last.encoded

(* The part of C13 about /ask, and the frame of the other two endpoints.   *)
C13_AskUnavailable ==
    (NeedsModel /\ ModelAbsent) =>
        /\ Asked => (last.code = 503 /\ last.trace = <<>> /\ kv = <<>>)
        /\ last.op = "embed" => (last.code >= 400 /\ last.after = last.before)
        /\ last.op = "search" => (last.code >= 400 /\ ~last.encoded)

(* No step loads a model again. *)
C13_NoReload == [][app' = app]_vars

(***************************************************************************)
(* The build endpoints from the start: one document not yet extracted, one *)
(* extracted, nothing built.                                               *)
(***************************************************************************)
MaxStepBuilds == 4

InitSteps ==
    /\ settings = DefaultSettings
    /\ app = AllServices
    /\ kv = <<>>
    /\ files = [d \in Docs |-> IF d = "d1" THEN NoFiles
                               ELSE [NoFiles EXCEPT !.text = Some(DocText(d))]]
    /\ last = Idle
    /\ hist = NoHist
    /\ budget = Budget(0, 0, MaxStepBuilds, 0)
    /\ pin = Pool({}, {}, {})
    /\ pout = <<>>

SpecSteps == InitSteps /\ [][ChunkDoc \/ EmbedDoc \/ IndexDoc]_vars

(* The step went past its already_* answer and its prerequisite was absent *)
LacksPrerequisite ==
    /\ Building
    /\ last.status \notin {"already_chunked", "already_embedded", "already_indexed"}
    /\ \/ last.op = "chunk" /\ ~Exists(last.before.text)
       \/ last.op = "embed" /\ ~Exists(last.before.chunks)
       \/ last.op = "index" /\ (~Exists(last.before.info) \/ ~Exists(last.before.npy))

HasEmbeddingFile(f) == Exists(f.meta) \/ Exists(f.npy) \/ Exists(f.info)

(* C14: a step whose prerequisite is absent answers 404 and creates        *)
(* nothing; and a document with an index has its embeddings files, a       *)
(* document with an embeddings file has chunks.                            *)
C14_MissingPrerequisiteIs404 ==
    /\ LacksPrerequisite => (last.code = 404 /\ last.after = last.before)
    /\ \A d \in Docs :
         /\ Exists(files[d].index) =>
                (Exists(files[d].npy) /\ Exists(files[d].info) /\ Exists(files[d].meta))
         /\ HasEmbeddingFile(files[d]) => Exists(files[d].chunks)

(* What of C14 holds: the 404 of every step, the frame of chunk and index, *)
(* and the chain index, matrix and manifest, chunks.                       *)
C14_StatusAndChain ==
    /\ LacksPrerequisite =>
           (last.code = 404 /\ (last.op # "embed" => last.after = last.before))
    /\ \A d \in Docs :
         /\ Exists(files[d].index) => (Exists(files[d].npy) /\ Exists(files[d].info))
         /\ (Exists(files[d].npy) \/ Exists(files[d].info)) => Exists(files[d].chunks)

(***************************************************************************)
(* The already_* answers of the build endpoints (under SpecSteps).         *)
(***************************************************************************)
(* The files whose presence makes the step answer already_*.               *)
StepFiles(op) ==
    CASE op = "chunk" -> {"chunks", "chunk_map"}
      [] op = "embed" -> {"npy", "meta", "info"}
      [] op = "index" -> {"index", "index_meta"}

StepBuilt(op, f) == \A name \in StepFiles(op) : Exists(f[name])

AlreadyStatus(op) ==
    CASE op = "chunk" -> "already_chunked"
      [] op = "embed" -> "already_embedded"
      [] op = "index" -> "already_indexed"

(* The counts as the artifacts of the build hold them: the entries of the  *)
(* chunk map, the rows and width of the matrix, the rows and width of the  *)
(* index.                                                                  *)
Width(rows) == IF rows = <<>> THEN 0 ELSE Len(rows[1])

ArtifactCounts(op, f) ==
    CASE op = "chunk" -> <<Len(Content(f.chunk_map).chunks)>>
      [] op = "embed" -> <<Len(Content(f.npy)), Width(Content(f.npy))>>
      [] op = "index" -> <<Len(Content(f.index).rows), Width(Content(f.index).rows)>>

(* C15: an unforced call over existing artifacts answers already_* with    *)
(* the counts of those artifacts and changes no file (so the embedding     *)
(* collaborator, whatever it would do, is not called); a successful build  *)
(* reports the counts of what it wrote; files change only in a forced call *)
(* or in a call that did not find the step's artifacts.                    *)
C15_AlreadyBuiltIsFrame ==
    Building =>
        /\ (~last.force /\ StepBuilt(last.op, last.before)) =>
               /\ last.code = 200 /\ last.status = AlreadyStatus(last.op)
               /\ last.after = last.before
               /\ response_counts(last.op, last.after) = ArtifactCounts(last.op, last.after)
        /\ last.status \in {"chunked", "embedded", "indexed"} =>
               response_counts(last.op, last.after) = ArtifactCounts(last.op, last.after)
        /\ last.status = AlreadyStatus(last.op) =>
               (~last.force /\ StepBuilt(last.op, last.before))
        /\ last.after # last.before => (last.force \/ ~StepBuilt(last.op, last.before))

(* C15 witness: an unforced embed call over a chunked and embedded         *)
(* document answers already_embedded with one row of width 2.              *)
C15_Witness ==
    /\ last.op = "embed" /\ last.status = "already_embedded" /\ ~last.force
    /\ StepBuilt("chunk", last.after)
    /\ response_counts("embed", last.after) = <<1, 2>>

(***************************************************************************)
(* Chunking: a document of one short page and one of two pages, chunked    *)
(* and chunked again, forced or not, with one setting changed in between.  *)
(***************************************************************************)
TwoPages ==
    << [page |-> 1, text |-> <<"a", " ", "b", "c", "d">>],
       [page |-> 2, text |-> <<"a", "b", "c">>] >>

InitChunking ==
    /\ \E m \in 1..3 : settings = [DefaultSettings EXCEPT !.MAX_CHUNKS_PER_DOC = m]
    /\ app = AllServices
    /\ kv = <<>>
    /\ files = [d \in Docs |->
                   [NoFiles EXCEPT !.text = Some(IF d = "d1" THEN DocText("d2")
                                                 ELSE TwoPages)]]
    /\ last = Idle
    /\ hist = NoHist
    /\ budget = Budget(0, MaxReconfigures, MaxStepBuilds, 0)
    /\ pin = Pool({}, {}, {})
    /\ pout = <<>>

SpecChunking == InitChunking /\ [][ChunkDoc \/ Reconfigure]_vars

ChunkingOf(s) == <<s.CHUNK_SIZE_CHARS, s.CHUNK_OVERLAP_CHARS, s.CHUNK_SEPARATORS>>

(* The last call rebuilt, over chunks that an earlier build wrote.         *)
Rebuilt ==
    /\ last.op = "chunk" /\ last.status = "chunked"
    /\ Exists(last.before.chunks) /\ Exists(last.before.chunk_map)

SameParameters == Content(last.before.chunk_map).chunking = ChunkingOf(settings)

(* The settings with everything but the three chunking parameters changed. *)
OtherwiseDifferent(s) ==
    [s EXCEPT !.QA_MODEL_NAME = "qa2", !.EMBEDDING_MODEL_NAME = "emb2",
              !.NER_MODEL_NAME = "ner2", !.MAX_CHUNKS_PER_DOC = 3,
              !.MAX_CHUNKS_TO_EMBED = 1, !.EMBEDDING_BATCH_SIZE = 1,
              !.EMBEDDING_NORMALIZE = FALSE, !.ENABLE_CACHE = FALSE]

ChunkParameters == {"CHUNK_SIZE_CHARS", "CHUNK_OVERLAP_CHARS", "CHUNK_SEPARATORS"}

ChunkIds(f) == Content(f.chunk_map).chunks

(* C17: after a change of chunk size, overlap or separators the chunking   *)
(* version is another one, and a forced rebuild of the same text yields    *)
(* chunk ids that are not the ids of the build before it.                  *)
C17_ParameterChangeChangesIds ==
    /\ (last.op = "reconfigure" /\ last.field \in ChunkParameters) =>
           _chunking_version(last.after) # _chunking_version(last.before)
    /\ (Rebuilt /\ last.force /\ ~SameParameters) =>
           ChunkIds(last.after) # ChunkIds(last.before)

(* The first half of C17 alone.                                            *)
C17_VersionFollowsParameters ==
    (last.op = "reconfigure" /\ last.field \in ChunkParameters) =>
        _chunking_version(last.after) # _chunking_version(last.before)

(* What the ids of C17 do follow: page, index and text of the chunks.      *)
C17_IdsFollowChunks ==
    Rebuilt =>
        (ChunkIds(last.after) = ChunkIds(last.before)
           <=> last.after.chunks = last.before.chunks)

TotalChunks(s, pages) == Len(PagesChunks(s, "-", pages, 0))

(* C19: a chunk build fails with 413 exactly when the chunks of all pages  *)
(* together are more than MAX_CHUNKS_PER_DOC, and then the chunk files are *)
(* neither created nor changed.                                            *)
C19_TooManyChunksIs413 ==
    (last.op = "chunk" /\ last.status # "already_chunked"
                       /\ Exists(last.before.text)) =>
        /\ last.code = 413
             <=> TotalChunks(settings, Content(last.before.text))
                    > settings.MAX_CHUNKS_PER_DOC
        /\ last.code = 413 => last.after = last.before
        /\ last.code # 413 => last.status = "chunked"

(* C19 witness: a forced rebuild over existing chunk files fails with 413  *)
(* and leaves them, every page of the text within the limit on its own.    *)
C19_Witness ==
    /\ last.op = "chunk" /\ last.code = 413 /\ last.force
    /\ Exists(last.before.chunks) /\ last.after = last.before
    /\ \A i \in 1..Len(Content(last.before.text)) :
           TotalChunks(settings, <<Content(last.before.text)[i]>>)
              <= settings.MAX_CHUNKS_PER_DOC

(***************************************************************************)
(* The chunker alone: build_chunks_for_doc over the pages of pin under the *)
(* chunk size, overlap and separators of pin.                              *)
(***************************************************************************)
PageTexts ==
    { <<"a", "b", "c", "d">>, <<"a", "b", " ", "c", "d", " ", "e">>,
      <<"a", " ", "b", " ", "c">>, <<"a", " ", " ", "b", "c">> }

SecondPage == [page |-> 2, text |-> <<"a", "b", " ", "c", "d">>]

InitOverlap ==
    /\ Quiet
    /\ \E text \in PageTexts, more \in BOOLEAN :
         pin \in [ pages : { <<[page |-> 1, text |-> text]>>
                               \o (IF more THEN <<SecondPage>> ELSE <<>>) },
                   size : {1, 2, 3},
                   overlap : {0, 1, 2, 3},
                   seps : { << <<" ">>, <<>> >>, << <<>> >> } ]
    /\ pout = <<>>

ChunkerSettings ==
    [DefaultSettings EXCEPT !.CHUNK_SIZE_CHARS = pin.size,
                            !.CHUNK_OVERLAP_CHARS = pin.overlap,
                            !.CHUNK_SEPARATORS = pin.seps,
                            !.MAX_CHUNKS_PER_DOC = 20]

BuildChunks ==
    /\ pout = <<>>
    /\ pout' = << build_chunks_for_doc(ChunkerSettings, "d1", pin.pages).chunks >>
    /\ UNCHANGED Rest

SpecOverlap == InitOverlap /\ [][BuildChunks]_vars

(* The texts of the chunks of one page, in order, and the page as split.   *)
TextsOfPage(chunks, page) ==
    LET on == SelectSeq(chunks, LAMBDA c : c.page = page)
    IN  [i \in 1..Len(on) |-> on[i].text]

SplitOfPage(p) ==
    _recursive_split(_normalize(pin.pages[p].text), pin.size, pin.seps)

Trailing(text, o) ==
    IF Len(text) > o THEN SubSeq(text, Len(text) - o + 1, Len(text)) ELSE text

(* The last k characters of text begin at a whitespace boundary of it.     *)
AtWhitespaceBoundary(text, k) ==
    \/ k = 0 \/ k = Len(text)
    \/ IsSpace(text[Len(text) - k]) \/ IsSpace(text[Len(text) - k + 1])

(* C18 as stated: with overlap o > 0 every chunk after the first of its    *)
(* page is a part of the trailing o characters of the chunk emitted before *)
(* it that begins at a whitespace boundary, followed by the chunk as       *)
(* split; the first chunk of a page is the chunk as split.                 *)
C18_AsStated ==
    (pout # <<>> /\ pin.overlap > 0) =>
        \A p \in 1..Len(pin.pages) :
            LET out == TextsOfPage(pout[1], pin.pages[p].page)
                base == SplitOfPage(p)
            IN  /\ Len(out) = Len(base)
                /\ out # <<>> => out[1] = base[1]
                /\ \A i \in 1..(Len(out) - 1) :
                       \E k \in 0..Len(Trailing(out[i], pin.overlap)) :
                           /\ AtWhitespaceBoundary(out[i], k)
                           /\ out[i + 1] = Strip(Trailing(out[i], k) \o <<" ">>
                                                   \o base[i + 1])

(* C18: with overlap o > 0 every chunk after the first of its page is the  *)
(* trailing o characters of the chunk emitted before it (the whole of it   *)
(* when it is not longer than o) without their leading whitespace, then    *)
(* one space, then the chunk as split, wherever in a word the o characters *)
(* begin; the first chunk of a page is the chunk as split; with overlap 0  *)
(* every chunk is the chunk as split.                                      *)
C18_CharacterOverlap ==
    pout # <<>> =>
        \A p \in 1..Len(pin.pages) :
            LET out == TextsOfPage(pout[1], pin.pages[p].page)
                base == SplitOfPage(p)
            IN  /\ Len(out) = Len(base)
                /\ out # <<>> => out[1] = base[1]
                /\ \A i \in 1..(Len(out) - 1) :
                       out[i + 1] =
                           IF pin.overlap > 0
                           THEN StripLeft(Trailing(out[i], pin.overlap))
                                  \o <<" ">> \o base[i + 1]
                           ELSE base[i + 1]

(* C18 witness: a page of three chunks whose third chunk begins inside a   *)
(* word of the second chunk as emitted, which is longer than as split.     *)
C18_Witness ==
    /\ pout # <<>> /\ pin.overlap > 0
    /\ \E p \in 1..Len(pin.pages) :
         LET out == TextsOfPage(pout[1], pin.pages[p].page)
             base == SplitOfPage(p)
         IN  /\ Len(out) >= 3
             /\ Len(out[2]) > pin.overlap
             /\ Len(out[2]) > Len(base[2])
             /\ ~IsSpace(out[2][Len(out[2]) - pin.overlap])
             /\ ~IsSpace(out[2][Len(out[2]) - pin.overlap + 1])
             /\ Len(pin.pages) = 2

(***************************************************************************)
(* The index build over what the embed step can leave: d1 chunked and      *)
(* embedded, d2 extracted; an embed build can be cut short by the end of   *)
(* the process between np.save (embed_cunks.py 120-121) and the writing of *)
(* the manifest (133).                                                     *)
(***************************************************************************)
InitFaiss ==
    /\ settings = DefaultSettings
    /\ app = AllServices
    /\ kv = <<>>
    /\ files = [d \in Docs |->
                   LET t == [NoFiles EXCEPT !.text = Some(DocText(d))]
                       c == chunk_document(DefaultSettings, t, d, FALSE).f
                   IN  IF d = "d1"
                       THEN embed_document(DefaultSettings, AllServices, c, d,
                                           FALSE, NeverFails).f
                       ELSE t]
    /\ last = Idle
    /\ hist = NoHist
    /\ budget = Budget(0, MaxReconfigures, MaxStepBuilds, 0)
    /\ pin = Pool({}, {}, {})
    /\ pout = <<>>

EmbedKilled ==
    /\ budget.builds > 0
    /\ app.embedding_service # None
    /\ \E d \in Docs, force \in BOOLEAN :
         /\ force \/ ~(Exists(files[d].npy) /\ Exists(files[d].meta)
                                            /\ Exists(files[d].info))
         /\ \E res \in {embed_document_chunks(settings, app.embedding_service,
                                              files[d], NeverFails)} :
              /\ res.error = ""
              /\ files' = [files EXCEPT ![d] = [res.f EXCEPT !.info = files[d].info]]
              /\ last' = [op |-> "killed", doc |-> d, force |-> force]
         /\ hist' = [hist EXCEPT !.tainted = @ \cup {d}]
    /\ budget' = [budget EXCEPT !.builds = @ - 1]
    /\ UNCHANGED <<settings, app, kv, pin, pout>>

SpecFaiss ==
    InitFaiss /\ [][ChunkDoc \/ EmbedDoc \/ EmbedKilled \/ IndexDoc \/ Reconfigure]_vars

(* What is wrong with the embeddings of a document, for an index build.    *)
Fault(f) ==
    IF ~Exists(f.info) THEN "manifest missing"
    ELSE IF ~Exists(f.npy) THEN "matrix missing"
    ELSE IF Content(f.info).row_count # Len(Content(f.npy))
              \/ Content(f.info).dim # Width(Content(f.npy))
    THEN "mismatch"
    ELSE "none"

IndexAttempted ==
    /\ last.op = "index"
    /\ last.force \/ ~StepBuilt("index", last.before)

(* C20: an index build over embeddings whose manifest is missing, whose    *)
(* matrix is missing, or whose manifest records another row count or       *)
(* dimension than the matrix has, fails and writes neither index nor index *)
(* metadata, and two different faults are never reported with the same     *)
(* error.                                                                  *)
C20_FaultyEmbeddingsFailTheBuild ==
    (IndexAttempted /\ Fault(last.before) # "none") =>
        /\ last.code >= 400
        /\ last.after.index = last.before.index
        /\ last.after.index_meta = last.before.index_meta
        /\ \A d \in Docs :
               Fault(files[d]) \notin {"none", Fault(last.before)} =>
                   build_index_detail(files[d]) # build_index_detail(last.before)

(* The part of C20 that holds: a missing manifest or matrix is a 404 that  *)
(* writes nothing, and build_faiss_index itself names the missing file.    *)
C20_MissingIs404 ==
    (IndexAttempted /\ Fault(last.before) \in {"manifest missing", "matrix missing"}) =>
        /\ last.code = 404 /\ last.after = last.before
        /\ build_faiss_index_error(last.before)
             = (IF Fault(last.before) = "manifest missing"
                THEN "EMBEDDINGS_INFO_NOT_FOUND" ELSE "EMBEDDINGS_NPY_NOT_FOUND")

(* What an index build does with a manifest that disagrees with the        *)
(* matrix: it builds, and records the shape of the matrix.                 *)
C20_MismatchIsReconciled ==
    (IndexAttempted /\ Fault(last.before) = "mismatch"
                    /\ Content(last.before.npy) # <<>>) =>
        /\ last.code = 200 /\ last.status = "indexed"
        /\ Content(last.after.index_meta).row_count = Len(Content(last.before.npy))
        /\ Content(last.after.index_meta).dim = Width(Content(last.before.npy))

(***************************************************************************)
(* Search over built documents: every document chunked, embedded and       *)
(* indexed from a text of one to three chunks, then searched with the text *)
(* of one of its chunks, which the encoder maps to that chunk's embedding. *)
(***************************************************************************)
SearchTexts ==
    { <<"a", " ", "b", "b", " ", "c", "c", "c">>,
      <<"a", "a", "a", " ", "b", " ", "c">>,
      <<"a", "b", " ", "c", "d">>,
      <<"a", "b", "c">> }

BuiltFrom(s, d, text) ==
    LET t == [NoFiles EXCEPT !.text = Some(<<[page |-> 1, text |-> text]>>)]
        c == chunk_document(s, t, d, FALSE).f
        e == embed_document(s, AllServices, c, d, FALSE, NeverFails).f
    IN  build_index(s, e, d, FALSE).f

InitSearch ==
    /\ \E name \in {"emb1", "emb2"} :
         settings = [DefaultSettings EXCEPT !.CHUNK_SIZE_CHARS = 3,
                                            !.EMBEDDING_MODEL_NAME = name]
    /\ app = AllServices
    /\ kv = <<>>
    /\ \E t1, t2 \in SearchTexts :
         files = [d \in Docs |-> BuiltFrom(settings, d, IF d = "d1" THEN t1 ELSE t2)]
    /\ last = Idle
    /\ hist = NoHist
    /\ budget = Budget(0, 0, 0, 0)
    /\ pin = Pool({}, {}, {})
    /\ pout = <<>>

SearchStored ==
    /\ \E d \in Docs, top_k \in {1, 2, MAX_TOP_K + 1} :
       \E i \in 1..Len(Content(files[d].chunks)) :
       \E r \in {search_doc(settings, app, files[d], d,
                            Content(files[d].chunks)[i].text, top_k)} :
           last' = [ op |-> "search", doc |-> d,
                     query |-> Content(files[d].chunks)[i].text, top_k |-> top_k,
                     code |-> r.code, hits |-> r.hits, encoded |-> r.encoded ]
    /\ UNCHANGED <<settings, app, kv, files, hist, budget, pin, pout>>

SpecSearch == InitSearch /\ [][SearchStored]_vars

QueryVector == encode_texts(app.embedding_service, settings, last.query)

(* The rows of the document's index that hold the query vector.            *)
RowsHolding(f, q) ==
    {r \in 0..(Len(Content(f.index).rows) - 1) : Content(f.index).rows[r + 1] = q}

NormalizedIP(f) ==
    /\ Content(f.index).index_type = "IndexFlatIP"
    /\ \A r \in 1..Len(Content(f.index).rows) :
           Norm(Content(f.index).rows[r]) = Norm(Dirs[1])

(* C21: a search of an inner-product index over normalized embeddings with *)
(* a query vector that a row of the index holds returns, for every top_k   *)
(* from 1, a first hit that is the chunk of such a row, with score 1 (the  *)
(* squared length of a normalized vector).                                 *)
C21_StoredVectorIsFirstHit ==
    (last.op = "search" /\ NormalizedIP(files[last.doc])
                        /\ RowsHolding(files[last.doc], QueryVector) # {}) =>
        /\ last.code = 200 /\ last.hits # <<>>
        /\ last.hits[1].score = Norm(Dirs[1]) * Norm(Dirs[1])
        /\ \E r \in RowsHolding(files[last.doc], QueryVector) :
               /\ last.hits[1].chunk_id = Content(files[last.doc].chunks)[r + 1].chunk_id
               /\ last.hits[1].chunk_index = Some(r)
        /\ Len(last.hits) = Min(Clamp(last.top_k), Len(Content(files[last.doc].index).rows))

(* C21 witness: the query is the third chunk of a document of three chunks *)
(* with three different embeddings, and one hit is asked for.              *)
C21_Witness ==
    /\ last.op = "search" /\ last.top_k = 1 /\ last.hits # <<>>
    /\ RowsHolding(files[last.doc], QueryVector) = {2}
    /\ last.hits[1].chunk_index = Some(2)

(***************************************************************************)
(* NER (ner_service.py).  The pipeline is a collaborator: what it finds in *)
(* the answer and in each source snippet is an input; an entity found is   *)
(* [text, label, start].                                                   *)
(***************************************************************************)
Lower(c) == IF c = "A" THEN "a" ELSE c

LowerAll(text) == [i \in 1..Len(text) |-> Lower(text[i])]

EntityKey(e) == <<LowerAll(Strip(e.text)), e.label, e.source, e.chunk_id>>

RECURSIVE dedupe_from(_, _, _, _)
dedupe_from(entities, seen, out, max_entities) ==
    IF entities = <<>> THEN out
    ELSE LET e == Head(entities)
         IN  IF EntityKey(e) \in seen
             THEN dedupe_from(Tail(entities), seen, out, max_entities)
             ELSE IF Len(out) + 1 >= max_entities THEN Append(out, e)
             ELSE dedupe_from(Tail(entities), seen \cup {EntityKey(e)},
                              Append(out, e), max_entities)

(* _dedupe_and_cap (53-73): the test against MAX_ENTITIES follows the      *)
(* append.                                                                 *)
_dedupe_and_cap(entities, max_entities) ==
    dedupe_from(entities, {}, <<>>, max_entities)

EntitiesOf(raw, source, chunk_id) ==
    [i \in 1..Len(raw) |->
        [ text |-> raw[i].text, label |-> raw[i].label, start |-> raw[i].start,
          source |-> source, chunk_id |-> chunk_id ]]

RECURSIVE chunk_entities(_)
chunk_entities(sources) ==
    IF sources = <<>> THEN <<>>
    ELSE (IF Strip(Head(sources).text_snippet) = <<>> THEN <<>>
          ELSE EntitiesOf(Head(sources).found, "chunk", Head(sources).chunk_id))
         \o chunk_entities(Tail(sources))

(* extract_entities (75-120): the answer's entities, then the sources' in  *)
(* their order; blank texts are not given to the pipeline.                 *)
all_entities(answer, answer_found, sources) ==
    (IF Strip(answer) = <<>> THEN <<>> ELSE EntitiesOf(answer_found, "answer", None))
    \o chunk_entities(sources)

extract_entities(answer, answer_found, sources, max_entities) ==
    _dedupe_and_cap(all_entities(answer, answer_found, sources), max_entities)

Found ==
    { [text |-> <<"A", "c">>, label |-> "ORG", start |-> 0],
      [text |-> <<"a", "c", " ">>, label |-> "ORG", start |-> 5],
      [text |-> <<"A", "c">>, label |-> "PERSON", start |-> 0] }

Source(chunk_id, snippet, found) ==
    [chunk_id |-> chunk_id, text_snippet |-> snippet, found |-> found]

InitNerService ==
    /\ Quiet
    /\ \E s1 \in {<<>>} \cup {<<Source("c1", <<"A", "c">>, f)>> : f \in SeqsUpTo(Found, 2)},
          s2 \in {<<>>} \cup {<<Source("c2", t, f)>> :
                                 t \in {<<"A", "c">>, <<" ">>}, f \in SeqsUpTo(Found, 1)} :
         pin \in [ answer : {<<"A", "c">>, <<>>},
                   answer_found : SeqsUpTo(Found, 2),
                   sources : {s1 \o s2},
                   max_entities : {0, 1, 2, 50} ]
    /\ pout = <<>>

ExtractEntities ==
    /\ pout = <<>>
    /\ pout' = << extract_entities(pin.answer, pin.answer_found, pin.sources,
                                   pin.max_entities) >>
    /\ UNCHANGED Rest

SpecNerService == InitNerService /\ [][ExtractEntities]_vars

(* What the call extracted, before deduplication. *)
Extracted == all_entities(pin.answer, pin.answer_found, pin.sources)

(* The entities of Extracted that are the first with their key, in order.  *)
FirstOccurrences ==
    SelectSeq([i \in 1..Len(Extracted) |-> [at |-> i, e |-> Extracted[i]]],
              LAMBDA x : \A j \in 1..(x.at - 1) :
                            EntityKey(Extracted[j]) # EntityKey(x.e))

Deduplicated ==
    /\ \A i, j \in 1..Len(pout[1]) :
           i # j => EntityKey(pout[1][i]) # EntityKey(pout[1][j])
    /\ Len(pout[1]) <= Len(FirstOccurrences)
    /\ \A i \in 1..Len(pout[1]) : pout[1][i] = FirstOccurrences[i].e

(* C22: the list extract_entities returns has no two entities with the     *)
(* same (trimmed lower-cased text, label, source, chunk_id), has at most   *)
(* MAX_ENTITIES entries, and is made of the first occurrence of each key,  *)
(* in the order of extraction: the answer's entities, then the sources'.   *)
C22_DedupedAndCapped ==
    pout # <<>> =>
        /\ Deduplicated
        /\ Len(pout[1]) <= pin.max_entities
        /\ Len(pout[1]) = Min(pin.max_entities, Len(FirstOccurrences))

(* What holds of the list whatever MAX_ENTITIES is: no duplicate key,      *)
(* first occurrences in order, and the cap from one entity on.             *)
C22_DedupedAndCappedFromOne ==
    pout # <<>> =>
        /\ Deduplicated
        /\ Len(pout[1]) = Min(Max(1, pin.max_entities), Len(FirstOccurrences))

(***************************************************************************)
(* Encoding within /ask: both documents indexed, questions with and        *)
(* without a maskable entity, over one document or both, entries expiring. *)
(***************************************************************************)
InitEncode ==
    /\ settings \in { DefaultSettings,
                      [DefaultSettings EXCEPT !.ENABLE_SEMANTIC_CACHE = FALSE],
                      [DefaultSettings EXCEPT !.ENABLE_CACHE = FALSE] }
    /\ app \in {AllServices, [AllServices EXCEPT !.embedding_service = "tiny"]}
    /\ kv = <<>>
    /\ files = [d \in Docs |-> Built(DefaultSettings, d)]
    /\ last = Idle
    /\ hist = NoHist
    /\ budget = Budget(MaxAsks, 0, 0, MaxExpires)
    /\ pin = Pool({ Body(QOther, "all", <<>>, 1), Body(Q2023, "all", <<>>, 1),
                    Body(QOther, "docs", <<"d1">>, 1) },
                  QaAnswers, {<<"e">>})
    /\ pout = <<>>

SpecEncode == InitEncode /\ [][Ask \/ Expire]_vars

Count(trace, e) == Cardinality({i \in 1..Len(trace) : trace[i] = e})

AskedQuestion == normalize_question(Strip(last.body.question))

(* How often the request gave the normalized question to the encoder: for  *)
(* the query embedding, and for the semantic cache when masking leaves the *)
(* question as it is.                                                      *)
EncodingsOfQuestion ==
    Count(last.trace, Ev("encode", "qemb", "-"))
      + (IF mask_entities(AskedQuestion) = AskedQuestion
         THEN Count(last.trace, Ev("encode", "semantic", "-"))
                + Count(last.trace, Ev("encode", "store", "-"))
         ELSE 0)

QembKeyWasPresent == Count(last.trace, Ev("hit", "qemb", "-")) > 0

Searched == {d \in Docs : Count(last.trace, Ev("search", "retrieval", d)) > 0}

get_text_json_path(doc_id) == <<"processed", doc_id, "text.json">>

(* The path of chunks.jsonl without the document's directory. *)
get_chunks_jsonl_path_flat(doc_id) == <<"processed", "-", "chunks.jsonl">>

get_chunks_jsonl_path(doc_id) == <<"processed", doc_id, "chunks.jsonl">>
get_chunk_map_path(doc_id) == <<"processed", doc_id, "chunk_map.json">>
get_embeddings_npy_path(doc_id) == <<"processed", doc_id, "embeddings.npy">>
get_embeddings_meta_jsonl_path(doc_id) == <<"processed", doc_id, "embeddings_meta.jsonl">>
get_embeddings_info_path(doc_id) == <<"processed", doc_id, "embeddings_info.json">>
get_faiss_index_path(doc_id) == <<"processed", doc_id, "faiss.index">>
get_faiss_meta_path(doc_id) == <<"processed", doc_id, "faiss_meta.json">>

ReadPath(disk, path) == IF path \in DOMAIN disk THEN disk[path] ELSE Absent

(* The artifacts of a document as the handlers find them on the disk.      *)
ReadDir(disk, d) ==
    [ text |-> ReadPath(disk, get_text_json_path(d)),
      chunks |-> ReadPath(disk, get_chunks_jsonl_path(d)),
      chunk_map |-> ReadPath(disk, get_chunk_map_path(d)),
      meta |-> ReadPath(disk, get_embeddings_meta_jsonl_path(d)),
      npy |-> ReadPath(disk, get_embeddings_npy_path(d)),
      info |-> ReadPath(disk, get_embeddings_info_path(d)),
      index |-> ReadPath(disk, get_faiss_index_path(d)),
      index_meta |-> ReadPath(disk, get_faiss_meta_path(d)) ]

(* The disk after a handler left the artifacts f for document d.           *)
WriteDir(disk, d, f) ==
    LET written == << <<get_text_json_path(d), f.text>>,
                      <<get_chunks_jsonl_path(d), f.chunks>>,
                      <<get_chunk_map_path(d), f.chunk_map>>,
                      <<get_embeddings_meta_jsonl_path(d), f.meta>>,
                      <<get_embeddings_npy_path(d), f.npy>>,
                      <<get_embeddings_info_path(d), f.info>>,
                      <<get_faiss_index_path(d), f.index>>,
                      <<get_faiss_meta_path(d), f.index_meta>> >>
        paths == {written[i][1] : i \in 1..Len(written)}
    IN  [p \in DOMAIN disk \cup paths |->
            IF p \in paths
            THEN written[CHOOSE i \in 1..Len(written) : written[i][1] = p][2]
            ELSE disk[p]]

InitDisk ==
    /\ settings = DefaultSettings
    /\ app = AllServices
    /\ kv = <<>>
    /\ \E built \in SUBSET Docs :
         files = WriteDir(
                     WriteDir(<<>>, "d1",
                              IF "d1" \in built THEN Built(DefaultSettings, "d1")
                              ELSE [NoFiles EXCEPT !.text = Some(DocText("d1"))]),
                     "d2",
                     IF "d2" \in built THEN Built(DefaultSettings, "d2")
                     ELSE [NoFiles EXCEPT !.text = Some(DocText("d2"))])
    /\ last = Idle
    /\ hist = NoHist
    /\ budget = Budget(0, 0, MaxStepBuilds, 0)
    /\ pin = Pool({}, {}, {})
    /\ pout = <<>>

ChunkOnDisk ==
    /\ budget.builds > 0
    /\ \E d \in Docs, force \in BOOLEAN :
         \E r \in {chunk_document(settings, ReadDir(files, d), d, force)} :
             /\ files' = WriteDir(files, d, r.f)
             /\ last' = Built_("chunk", d, force, ReadDir(files, d), r, FALSE)
    /\ budget' = [budget EXCEPT !.builds = @ - 1]
    /\ UNCHANGED <<settings, app, kv, hist, pin, pout>>

EmbedOnDisk ==
    /\ budget.builds > 0
    /\ \E d \in Docs, force \in BOOLEAN, enc \in Encs :
         \E r \in {embed_document(settings, app, ReadDir(files, d), d, force, enc)} :
             /\ files' = WriteDir(files, d, r.f)
             /\ last' = Built_("embed", d, force, ReadDir(files, d), r, FALSE)
    /\ budget' = [budget EXCEPT !.builds = @ - 1]
    /\ UNCHANGED <<settings, app, kv, hist, pin, pout>>

IndexOnDisk ==
    /\ budget.builds > 0
    /\ \E d \in Docs, force \in BOOLEAN :
         \E r \in {build_index(settings, ReadDir(files, d), d, force)} :
             /\ files' = WriteDir(files, d, r.f)
             /\ last' = Built_("index", d, force, ReadDir(files, d), r, FALSE)
    /\ budget' = [budget EXCEPT !.builds = @ - 1]
    /\ UNCHANGED <<settings, app, kv, hist, pin, pout>>

SearchQueries == {<<"x">>, <<"x", "y">>}

SearchOnDisk ==
    /\ \E d \in Docs, query \in SearchQueries, top_k \in {1, 2} :
       \E r \in {search_doc(settings, app, ReadDir(files, d), d, query, top_k)} :
           last' = [ op |-> "search", doc |-> d, query |-> query, top_k |-> top_k,
                     code |-> r.code, hits |-> r.hits, encoded |-> r.encoded ]
    /\ UNCHANGED <<settings, app, kv, files, hist, budget, pin, pout>>

SpecDisk ==
    InitDisk /\ [][ChunkOnDisk \/ EmbedOnDisk \/ IndexOnDisk \/ SearchOnDisk]_vars

SearchResults(disk, d) ==
    [query \in SearchQueries, top_k \in {1, 2} |->
        search_doc(settings, app, ReadDir(disk, d), d, query, top_k)]

(* C24: a chunk, embed or index call for a document changes only paths     *)
(* under processed/<that document>/: the artifacts of every other document *)
(* are as before, and so is every search of every other document.          *)
C24_BuildsWriteOwnDirectory ==
    [][ last'.op \in {"chunk", "embed", "index"} =>
          /\ \A p \in DOMAIN files' :
                 ReadPath(files', p) # ReadPath(files, p)
                    => (p[1] = "processed" /\ p[2] = last'.doc)
          /\ \A b \in Docs \ {last'.doc} :
                 /\ ReadDir(files', b) = ReadDir(files, b)
                 /\ SearchResults(files', b) = SearchResults(files, b) ]_vars

(* C24 witness: a forced build wrote the index of d1 while d2 has an index *)
(* that a search finds hits in.                                            *)
C24_Witness ==
    /\ last.op = "index" /\ last.doc = "d1" /\ last.status = "indexed"
    /\ last.after # last.before
    /\ Exists(ReadDir(files, "d2").index)
    /\ search_doc(settings, app, ReadDir(files, "d2"), "d2", <<"x">>, 1).hits # <<>>

(***************************************************************************)
(* Upload (api/routes/upload.py, storage/files.py, storage/dedup.py,       *)
(* storage/metadata.py).  An uploaded file is its filename (stem and       *)
(* suffix), its declared content type and its content: the signature its   *)
(* first bytes carry, its size in bytes and the identity of its bytes.     *)
(* The upload root is a record: dirs[doc_id] is the directory              *)
(* uploads/<doc_id> with its stored original and its metadata.json, index  *)
(* is uploads/sha256_index.json and index_tmp is uploads/sha256_index.tmp. *)
(* A fresh uuid4 is the next unused directory number.                      *)
(***************************************************************************)
MB == 1024 * 1024

UploadSettings ==
    [ MAX_UPLOAD_MB |-> 1, MAX_FILES_PER_REQUEST |-> 3,
      ALLOWED_EXTENSIONS |-> {".pdf", ".png", ".jpg", ".jpeg", ".tif", ".tiff"},
      ALLOWED_MIME_TYPES |-> {"application/pdf", "image/png", "image/jpeg",
                              "image/tiff"},
      ENABLE_DEDUP |-> TRUE ]

str_lower(x) ==
    CASE x = ".PDF" -> ".pdf"
      [] x = "Application/PDF" -> "application/pdf"
      [] OTHER -> x

_validate_extension(s, filename) ==
    IF str_lower(filename.suffix) \in s.ALLOWED_EXTENSIONS THEN 0 ELSE 400

_validate_mime(s, upload_file) ==
    IF str_lower(upload_file.content_type) \in s.ALLOWED_MIME_TYPES THEN 0 ELSE 415

read_first_bytes(upload_file) == upload_file.content.first_bytes

sniff_magic(content_type, first_bytes) ==
    LET ct == str_lower(content_type)
    IN  CASE ct = "application/pdf" -> first_bytes = "%PDF"
          [] ct = "image/png" -> first_bytes = "PNG"
          [] ct = "image/jpeg" -> first_bytes = "JPEG"
          [] ct = "image/tiff" -> first_bytes \in {"TIFF_II", "TIFF_MM"}
          [] OTHER -> FALSE

EmptyDir == [original |-> Absent, metadata |-> Absent]

EmptyUploads == [dirs |-> <<>>, index |-> Absent, index_tmp |-> Absent]

uuid4(disk) == Len(disk.dirs) + 1

ensure_dir(disk, doc_id) ==
    IF doc_id \in DOMAIN disk.dirs THEN disk
    ELSE [disk EXCEPT !.dirs = Append(@, EmptyDir)]

(* The read loop of save_upload_file_streaming: chunks of 1 MB are added   *)
(* to total until the file ends or total passes max_bytes.                 *)
RECURSIVE stream(_, _, _)
stream(remaining, total, max_bytes) ==
    IF remaining = 0 THEN [error |-> None, total |-> total]
    ELSE LET chunk == IF remaining < MB THEN remaining ELSE MB
         IN  IF total + chunk > max_bytes
             THEN [error |-> "FILE_TOO_LARGE", total |-> total + chunk]
             ELSE stream(remaining - chunk, total + chunk, max_bytes)

save_upload_file_streaming_keeping(disk, upload_file, doc_id, max_bytes) ==
    LET made   == ensure_dir(disk, doc_id)
        r      == stream(upload_file.content.size, 0, max_bytes)
        saved  == [ doc_id |-> doc_id,
                    original_filename |-> upload_file.filename,
                    content_type |-> upload_file.content_type,
                    size_bytes |-> r.total,
                    sha256 |-> sha256_hex(upload_file.content) ]
    IN  [ error |-> r.error, saved |-> saved,
          disk |-> [made EXCEPT !.dirs[doc_id].original = Some(saved)] ]

save_upload_file_streaming(disk, upload_file, doc_id, max_bytes) ==
    LET made   == ensure_dir(disk, doc_id)
        r      == stream(upload_file.content.size, 0, max_bytes)
        saved  == [ doc_id |-> doc_id,
                    original_filename |-> upload_file.filename,
                    content_type |-> upload_file.content_type,
                    size_bytes |-> r.total,
                    sha256 |-> sha256_hex(upload_file.content) ]
    IN  IF r.error # None
        THEN [error |-> r.error, saved |-> saved, disk |-> made]
        ELSE [ error |-> None, saved |-> saved,
               disk |-> [made EXCEPT !.dirs[doc_id].original = Some(saved)] ]

read_index(disk) ==
    IF Exists(disk.index) THEN Content(disk.index) ELSE <<>>

find_existing_doc_id(disk, sha256) ==
    LET data == read_index(disk)
    IN  IF sha256 \in DOMAIN data THEN Some(data[sha256]) ELSE Absent

(* upsert_hash line by line: the index read (88-89), the entry set and    *)
(* the whole mapping written to the .tmp file (91-94), the .tmp file      *)
(* renamed over the index (95).                                           *)
write_tmp(disk, data, sha256, doc_id) ==
    [disk EXCEPT !.index_tmp =
        Some([h \in DOMAIN data \cup {sha256} |->
                 IF h = sha256 THEN doc_id ELSE data[h]])]

replace_tmp(disk) == [disk EXCEPT !.index = disk.index_tmp, !.index_tmp = Absent]

write_index(disk, data, sha256, doc_id) ==
    replace_tmp(write_tmp(disk, data, sha256, doc_id))

upsert_hash(disk, sha256, doc_id) ==
    write_index(disk, read_index(disk), sha256, doc_id)

write_metadata(disk, saved) ==
    [disk EXCEPT !.dirs[saved.doc_id].metadata = Some(saved)]

ErrorItem(filename, detail) ==
    [ filename |-> filename, status |-> "error", doc_id |-> Absent,
      sha256 |-> Absent, error_detail |-> detail ]

OkItem(saved, canonical_doc_id) ==
    [ filename |-> saved.original_filename, status |-> "ok",
      doc_id |-> Some(canonical_doc_id), sha256 |-> Some(saved.sha256),
      error_detail |-> None ]

(* The body of the loop of upload for one file: the item appended to the   *)
(* results and the upload root afterwards.                                 *)
upload_file_step(s, disk, f) ==
    IF _validate_extension(s, f.filename) # 0
    THEN [item |-> ErrorItem(f.filename, "Unsupported file extension"), disk |-> disk]
    ELSE IF _validate_mime(s, f) # 0
    THEN [item |-> ErrorItem(f.filename, "Unsupported content type"), disk |-> disk]
    ELSE IF ~sniff_magic(f.content_type, read_first_bytes(f))
    THEN [item |-> ErrorItem(f.filename, "Magic-bytes verification failed"),
          disk |-> disk]
    ELSE
    LET doc_id == uuid4(disk)
        sv     == save_upload_file_streaming(disk, f, doc_id, s.MAX_UPLOAD_MB * MB)
    IN  IF sv.error # None
        THEN [item |-> ErrorItem(f.filename, "File exceeds max size"),
              disk |-> sv.disk]
        ELSE
        LET existing  == IF s.ENABLE_DEDUP
                         THEN find_existing_doc_id(sv.disk, sv.saved.sha256)
                         ELSE Absent
            reuse     == Exists(existing) /\ existing # Some(doc_id)
            canonical == IF reuse THEN Content(existing) ELSE doc_id
            indexed   == IF s.ENABLE_DEDUP /\ ~reuse
                         THEN upsert_hash(sv.disk, sv.saved.sha256, doc_id)
                         ELSE sv.disk
        IN  [ item |-> OkItem(sv.saved, canonical),
              disk |-> write_metadata(indexed, sv.saved) ]

RECURSIVE upload_loop(_, _, _, _)
upload_loop(s, disk, fs, results) ==
    IF fs = <<>> THEN [documents |-> results, disk |-> disk]
    ELSE LET r == upload_file_step(s, disk, Head(fs))
         IN  upload_loop(s, r.disk, Tail(fs), Append(results, r.item))

upload(s, disk, fs) ==
    IF fs = <<>> \/ Len(fs) > s.MAX_FILES_PER_REQUEST
    THEN [code |-> 400, documents |-> <<>>, has_errors |-> FALSE, disk |-> disk]
    ELSE LET r == upload_loop(s, disk, fs, <<>>)
         IN  [ code |-> 200, documents |-> r.documents,
               has_errors |-> \E i \in 1..Len(r.documents) :
                                  r.documents[i].status = "error",
               disk |-> r.disk ]

(* Contents and files of the requests.  Sizes are in bytes; the largest    *)
(* file is one byte over MAX_UPLOAD_MB.                                    *)
Bytes(first_bytes, size, id) == [first_bytes |-> first_bytes, size |-> size, id |-> id]

UploadFile(stem, suffix, content_type, content) ==
    [ filename |-> [stem |-> stem, suffix |-> suffix],
      content_type |-> content_type, content |-> content ]

OkPdf    == UploadFile("ok", ".pdf", "application/pdf", Bytes("%PDF", 13, "a"))
SamePdf  == UploadFile("copy", ".PDF", "Application/PDF", Bytes("%PDF", 13, "a"))
FullPng  == UploadFile("full", ".png", "image/png", Bytes("PNG", MB, "b"))
EvilExe  == UploadFile("evil", ".exe", "application/pdf", Bytes("%PDF", 13, "a"))
TextPdf  == UploadFile("test", ".pdf", "text/plain", Bytes("%PDF", 13, "a"))
NotPdf   == UploadFile("test", ".pdf", "application/pdf", Bytes("NOTPDF", 6, "c"))
BigPdf   == UploadFile("big", ".pdf", "application/pdf", Bytes("%PDF", MB + 1, "d"))

UploadFiles == {OkPdf, SamePdf, FullPng, EvilExe, TextPdf, NotPdf, BigPdf}

InitUpload ==
    /\ settings \in {[UploadSettings EXCEPT !.ENABLE_DEDUP = b] : b \in BOOLEAN}
    /\ files \in {EmptyUploads, upload(settings, EmptyUploads, <<OkPdf>>).disk}
    /\ pin \in [request : SeqsUpTo(UploadFiles, UploadSettings.MAX_FILES_PER_REQUEST + 1)]
    /\ app = None /\ kv = <<>> /\ hist = <<>> /\ pout = <<>>
    /\ budget = Budget(0, 0, 0, 0)
    /\ last = [op |-> "init"]

Upload ==
    /\ last.op = "init"
    /\ \E r \in {upload(settings, files, pin.request)} :
         /\ files' = r.disk
         /\ last' = [ op |-> "upload", code |-> r.code, documents |-> r.documents,
                      has_errors |-> r.has_errors, before |-> files ]
    /\ UNCHANGED <<settings, app, kv, hist, budget, pin, pout>>

SpecUpload == InitUpload /\ [][Upload]_vars

Valid(s, f) ==
    /\ str_lower(f.filename.suffix) \in s.ALLOWED_EXTENSIONS
    /\ str_lower(f.content_type) \in s.ALLOWED_MIME_TYPES
    /\ \/ f.content.first_bytes = "%PDF" /\ str_lower(f.content_type) = "application/pdf"
       \/ f.content.first_bytes = "PNG" /\ str_lower(f.content_type) = "image/png"
    /\ f.content.size <= s.MAX_UPLOAD_MB * MB

(* The originals stored by the request: those of the directories made      *)
(* since it started, in the order they were made.                          *)
StoredSince(before, after) ==
    SelectSeq(SubSeq(after.dirs, Len(before.dirs) + 1, Len(after.dirs)),
              LAMBDA dir : Exists(dir.original))

ValidOf(s, fs) == SelectSeq(fs, LAMBDA f : Valid(s, f))

Unindexed(s, d) ==
    LET t == [NoFiles EXCEPT !.text = Some(DocText(d))]
        c == chunk_document(s, t, d, FALSE).f
    IN  embed_document(s, AllServices, c, d, FALSE, NeverFails).f

InitScope ==
    /\ settings \in {DefaultSettings,
                     [DefaultSettings EXCEPT !.ENABLE_SEMANTIC_CACHE = FALSE]}
    /\ app = AllServices
    /\ kv = <<>>
    /\ files \in { [d \in Docs |-> Built(DefaultSettings, d)],
                   [d \in Docs |-> IF d = "d1" THEN Built(DefaultSettings, d)
                                   ELSE Unindexed(DefaultSettings, d)] }
    /\ last = Idle
    /\ hist = NoHist
    /\ budget = Budget(MaxAsks, 0, MaxBuilds, 0)
    /\ pin = Pool({ Body(QOther, "all", <<>>, 1), Body(QOther, "docs", <<"d1">>, 1),
                    Body(QOther, "docs", <<"d2">>, 1),
                    Body(QOther, "docs", <<"d2", "d1">>, 1) },
                  QaAnswers, NerOutcomes)
    /\ pout = <<>>

SpecScope == InitScope /\ [][Ask \/ IndexDoc]_vars

ServedFromCache ==
    last.op = "ask" /\ last.code = 200 /\ last.layer \in {"semantic", "answer"}

(* C26: a response served from the exact-answer or the semantic cache was  *)
(* computed over the set of documents that the request resolves its scope  *)
(* to: the documents named by a scope='docs' request, the documents        *)
(* indexed now for a scope='all' request.                                  *)
C26_CachedOverSameDocuments ==
    ServedFromCache => last.computed_over = last.resolved

(***************************************************************************)
(* Searches interleaved with builds and with restarts under other          *)
(* chunking parameters or another embedding model.                         *)
(***************************************************************************)
InitStale ==
    /\ settings = DefaultSettings
    /\ app = AllServices
    /\ kv = <<>>
    /\ files = [d \in Docs |-> Built(DefaultSettings, d)]
    /\ last = Idle
    /\ hist = NoHist
    /\ budget = Budget(0, MaxReconfigures, MaxBuilds, 0)
    /\ pin = Pool({}, {}, {})
    /\ pout = <<>>

SpecStale ==
    InitStale /\ [][ChunkDoc \/ EmbedDoc \/ IndexDoc \/ Reconfigure \/ SearchDoc]_vars

(* The search loaded the index, the row metadata and the chunk file.       *)
SearchReadIndex ==
    last.op = "search" /\ last.code = 200 /\ last.encoded

(* The index holds the rows of embeddings.npy as it is now, made under the *)
(* chunking and the model that the manifest declares.                      *)
IndexIsCurrent(f) ==
    /\ Exists(f.npy) /\ Exists(f.info) /\ Exists(f.index_meta)
    /\ Content(f.index).rows = Content(f.npy)
    /\ Content(f.index_meta).chunking_version = Content(f.info).chunking_version
    /\ Content(f.index_meta).embedding_model = Content(f.info).embedding_model

(* C27: whenever a search reads the index of a document, that index was    *)
(* built from the embeddings and the row metadata the document has now.    *)
C27_SearchReadsCurrentIndex ==
    SearchReadIndex => IndexIsCurrent(files[last.doc])

(***************************************************************************)
(* Two upload requests of one file each, in flight together.  upload is a  *)
(* coroutine: between its awaits (the reads of the file) it runs alone in  *)
(* its event loop, so two requests of one worker process interleave only   *)
(* before the save has returned; two requests of different worker          *)
(* processes over the same DATA_DIR interleave at every file operation.    *)
(* hist[p] is the request's position and its local variables.              *)
(***************************************************************************)
Uploaders == {"u1", "u2"}

Workers == {"w1", "w2"}

Starting ==
    [ pc |-> "start", doc_id |-> 0, sha256 |-> Absent, data |-> <<>>,
      canonical |-> Absent, code |-> 0 ]

(* Positions after the last await of the loop body (upload.py 89-112).     *)
Synchronous == {"saved", "found", "read", "written", "replaced", "canonical"}

Runs(p) ==
    \A q \in Uploaders \ {p} :
        pin.worker[q] = pin.worker[p] => hist[q].pc \notin Synchronous

InitRace ==
    /\ settings = UploadSettings
    /\ files \in {EmptyUploads, upload(settings, EmptyUploads, <<FullPng>>).disk}
    /\ pin \in [ file : [Uploaders -> {OkPdf, SamePdf, FullPng}],
                 worker : [Uploaders -> Workers], before : {files} ]
    /\ hist = [p \in Uploaders |-> Starting]
    /\ app = None /\ kv = <<>> /\ pout = <<>>
    /\ budget = Budget(0, 0, 0, 0)
    /\ last = [op |-> "init"]

Step(p, op, local, disk) ==
    /\ hist' = [hist EXCEPT ![p] = local]
    /\ files' = disk
    /\ last' = [op |-> op, by |-> p]
    /\ UNCHANGED <<settings, app, kv, budget, pin, pout>>

(* upload.py 69-87: the validations, the uuid and the save.                *)
SaveFile(p) ==
    /\ hist[p].pc = "start" /\ Runs(p)
    /\ _validate_extension(settings, pin.file[p].filename) = 0
    /\ _validate_mime(settings, pin.file[p]) = 0
    /\ sniff_magic(pin.file[p].content_type, read_first_bytes(pin.file[p]))
    /\ \E r \in {save_upload_file_streaming(files, pin.file[p], uuid4(files),
                                            settings.MAX_UPLOAD_MB * MB)} :
         /\ r.error = None
         /\ Step(p, "save",
                 [hist[p] EXCEPT !.pc = "saved", !.doc_id = r.saved.doc_id,
                                 !.sha256 = Some(r.saved.sha256)],
                 r.disk)

(* upload.py 90-96: find_existing_doc_id and the choice of the canonical id *)
FindExisting(p) ==
    /\ hist[p].pc = "saved" /\ Runs(p) /\ settings.ENABLE_DEDUP
    /\ \E existing \in {find_existing_doc_id(files, Content(hist[p].sha256))} :
         IF Exists(existing) /\ existing # Some(hist[p].doc_id)
         THEN Step(p, "find", [hist[p] EXCEPT !.pc = "canonical",
                                              !.canonical = existing], files)
         ELSE Step(p, "find", [hist[p] EXCEPT !.pc = "found",
                                              !.canonical = Some(hist[p].doc_id)],
                   files)

(* dedup.py 85-89 *)
ReadIndex(p) ==
    /\ hist[p].pc = "found" /\ Runs(p)
    /\ Step(p, "read", [hist[p] EXCEPT !.pc = "read", !.data = read_index(files)],
            files)

(* dedup.py 91-94 *)
WriteTmp(p) ==
    /\ hist[p].pc = "read" /\ Runs(p)
    /\ Step(p, "write", [hist[p] EXCEPT !.pc = "written"],
            write_tmp(files, hist[p].data, Content(hist[p].sha256), hist[p].doc_id))

(* dedup.py 95: the rename raises FileNotFoundError when another request   *)
(* has renamed the .tmp file away; upload catches HTTPException and        *)
(* ValueError only, so the request ends with 500 (main.py 65-69).          *)
ReplaceTmp(p) ==
    /\ hist[p].pc = "written" /\ Runs(p)
    /\ IF Exists(files.index_tmp)
       THEN Step(p, "replace", [hist[p] EXCEPT !.pc = "replaced"], replace_tmp(files))
       ELSE Step(p, "replace", [hist[p] EXCEPT !.pc = "done", !.code = 500], files)

(* upload.py 101-112, 143 *)
WriteMetadata(p) ==
    /\ hist[p].pc \in {"replaced", "canonical"} /\ Runs(p)
    /\ Step(p, "metadata", [hist[p] EXCEPT !.pc = "done", !.code = 200],
            [files EXCEPT !.dirs[hist[p].doc_id].metadata =
                              files.dirs[hist[p].doc_id].original])

SpecRace ==
    InitRace /\ [][\E p \in Uploaders :
                      \/ SaveFile(p) \/ FindExisting(p) \/ ReadIndex(p)
                      \/ WriteTmp(p) \/ ReplaceTmp(p) \/ WriteMetadata(p)]_vars

AllAnswered == \A p \in Uploaders : hist[p].pc = "done"

StoredHashes ==
    {Content(files.dirs[i].original).sha256 :
         i \in {j \in 1..Len(files.dirs) : Exists(files.dirs[j].original)}}

SameCanonical ==
    \A p, q \in Uploaders :
        (hist[p].code = 200 /\ hist[q].code = 200 /\ hist[p].sha256 = hist[q].sha256)
            => hist[p].canonical = hist[q].canonical

IndexKept ==
    /\ \A h \in StoredHashes : h \in DOMAIN read_index(files)
    /\ \A h \in DOMAIN read_index(pin.before) :
           h \in DOMAIN read_index(files)
              /\ read_index(files)[h] = read_index(pin.before)[h]
    /\ \A p \in Uploaders :
           hist[p].code = 200 =>
               Some(read_index(files)[Content(hist[p].sha256)]) = hist[p].canonical

(* C28: with deduplication on, once the concurrent upload requests are     *)
(* answered, the successful uploads of identical bytes have returned the   *)
(* same canonical doc_id, and the hash index has an entry for the hash of  *)
(* every stored file, none lost or replaced by another request's write.    *)
C28_DedupUnderConcurrency ==
    AllAnswered => (SameCanonical /\ IndexKept)

(* The same for two requests handled by one worker process.                *)
C28_WithinOneWorker ==
    (AllAnswered /\ pin.worker["u1"] = pin.worker["u2"])
        => (SameCanonical /\ IndexKept)

(* C29: every chunk of a document has a text of at most CHUNK_SIZE_CHARS   *)
(* characters, whatever the page text and the overlap, the chunks after    *)
(* the first of a page included.                                           *)
C29_ChunksWithinSize ==
    pout # <<>> =>
        \A i \in 1..Len(pout[1]) : Len(pout[1][i].text) <= pin.size

(* The same for the chunks that get no overlap prefix: those of a build    *)
(* without overlap and the first chunk of each page.                       *)
C29_UnprefixedWithinSize ==
    pout # <<>> =>
        \A i \in 1..Len(pout[1]) :
            (pin.overlap = 0 \/ pout[1][i].chunk_index = 0)
                => Len(pout[1][i].text) <= pin.size

(***************************************************************************)
(* Requests over documents embedded and indexed with normalized or with    *)
(* unnormalized embeddings (EMBEDDING_NORMALIZE), the cache off.           *)
(***************************************************************************)
InitMetric ==
    /\ settings \in {[DefaultSettings EXCEPT !.ENABLE_CACHE = FALSE,
                                             !.EMBEDDING_NORMALIZE = n] :
                         n \in BOOLEAN}
    /\ app = AllServices
    /\ kv = <<>>
    /\ files = [d \in Docs |-> Built(settings, d)]
    /\ last = Idle
    /\ hist = NoHist
    /\ budget = Budget(MaxAsks, 0, 0, 0)
    /\ pin = Pool({Body(q, "all", <<>>, k) : q \in {Q2023, QOther}, k \in {1, 2}}
                     \cup {Body(Q2023, "docs", <<"d1">>, 1)},
                  QaOutcomes, NerOutcomes)
    /\ pout = <<>>

SpecMetric == InitMetric /\ [][Ask]_vars

IndexTypeOf(d) == Content(files[d].index).index_type

(* Hit a is a closer match to the query than hit b: a larger inner product *)
(* or a smaller distance.                                                  *)
Closer(a, b) ==
    IF IndexTypeOf(a.doc_id) = "IndexFlatIP" THEN a.score > b.score
    ELSE a.score < b.score

HitsOfEachDoc(body) ==
    Concat([i \in 1..Len(last.resolved_list) |->
               retriever_search(files[last.resolved_list[i]], last.resolved_list[i],
                                body.top_k,
                                encode_texts(app.embedding_service, settings,
                                             normalize_question(Strip(body.question)))
                               ).hits])

Retrieved == last.op = "ask" /\ last.code = 200 /\ last.layer = "none"

(* C30: for both index types the sources of a response are ordered best    *)
(* match first, and every per-document hit left out by the truncation to   *)
(* top_k is no closer to the query than the sources kept.                  *)
C30_BestMatchFirst ==
    Retrieved =>
        LET src == last.response.sources
            all == HitsOfEachDoc(last.body)
        IN  /\ \A i, j \in 1..Len(src) : i < j => ~Closer(src[j], src[i])
            /\ \A k \in 1..Len(all) :
                   (\A i \in 1..Len(src) : src[i].chunk_id # all[k].chunk_id)
                       => \A i \in 1..Len(src) : ~Closer(all[k], src[i])

(* The same for documents indexed with normalized embeddings only.         *)
C30_BestMatchFirstInnerProduct ==
    (Retrieved /\ settings.EMBEDDING_NORMALIZE) =>
        LET src == last.response.sources
            all == HitsOfEachDoc(last.body)
        IN  /\ \A i, j \in 1..Len(src) : i < j => ~Closer(src[j], src[i])
            /\ \A k \in 1..Len(all) :
                   (\A i \in 1..Len(src) : src[i].chunk_id # all[k].chunk_id)
                       => \A i \in 1..Len(src) : ~Closer(all[k], src[i])
====
